---- MODULE Spec2Model ----
(***************************************************************************)
(* Margsathi routing backend: the credential-driven provider configuration *)
(* (backend/config.py), the provider clients (backend/services/*.py), the  *)
(* RouterManager fallback loop (backend/services/router_manager.py) and    *)
(* the request handlers of backend/routes/routing.py.                      *)
(*                                                                         *)
(* Python str values the code manipulates (lower, strip, in) are sequences *)
(* of one-character strings; None of such a value is NoneS.  JSON objects  *)
(* are records, Python None of an object-valued result is NoneV.           *)
(***************************************************************************)
EXTENDS Integers, Sequences, FiniteSets, TLC

VARIABLES
    env,             \* os.environ as read at import time
    config,          \* backend.config.routing_config (RoutingConfig fields)
    fallback_chain,  \* router_manager.fallback_chain
    status,          \* last answer of GET /providers/status, NoneV before
    mmi_token,       \* router_manager.providers[MAPMYINDIA].token
    mgr,             \* the RouterManager.get_route call in progress
    served,          \* number of requests completed by this process
    handler,         \* the request handler of routes/routing.py in progress
    tasks            \* concurrent get_route calls on the shared MapMyIndia client

vars == <<env, config, fallback_chain, status, mmi_token, mgr, served, handler, tasks>>

bootVars == <<env, config, fallback_chain>>

-----------------------------------------------------------------------------
(* Python values *)

NoneS == <<"<None>">>
NoneV == [isNone |-> TRUE]
EmptyDict == [k \in {} |-> TRUE]

\* bool(s) of an Optional[str]
Bool(s) == s # NoneS /\ s # <<>>

\* bool(v) of an Optional[dict]: None and {} are falsy
Truthy(v) == v # NoneV /\ DOMAIN v # {}

\* d.get(k, default) of a dict
Get(d, k, default) == IF k \in DOMAIN d THEN d[k] ELSE default

Range(s) == {s[i] : i \in 1..Len(s)}

UpperToLower ==
    [A |-> "a", B |-> "b", C |-> "c", D |-> "d", E |-> "e", F |-> "f", G |-> "g",
     H |-> "h", I |-> "i", J |-> "j", K |-> "k", L |-> "l", M |-> "m", N |-> "n",
     O |-> "o", P |-> "p", Q |-> "q", R |-> "r", S |-> "s", T |-> "t", U |-> "u",
     V |-> "v", W |-> "w", X |-> "x", Y |-> "y", Z |-> "z"]

\* str.lower()
Lower(s) == [i \in 1..Len(s) |-> IF s[i] \in DOMAIN UpperToLower THEN UpperToLower[s[i]] ELSE s[i]]

-----------------------------------------------------------------------------
(* backend/config.py *)

\* class RoutingProvider(str, Enum), in declaration (iteration) order
RoutingProvider == <<"mapbox", "google", "mapmyindia", "osrm">>

Providers == Range(RoutingProvider)

MAPBOX == "mapbox"
GOOGLE_MAPS == "google"
MAPMYINDIA == "mapmyindia"
OSRM == "osrm"

\* the enum members' str values
ProviderValue ==
    [mapbox |-> <<"m","a","p","b","o","x">>,
     google |-> <<"g","o","o","g","l","e">>,
     mapmyindia |-> <<"m","a","p","m","y","i","n","d","i","a">>,
     osrm |-> <<"o","s","r","m">>]

DefaultOsrmUrl == <<"https://router.project-osrm.org">>

\* os.getenv(name, default)
GetEnv(e, name, default) == IF e[name] = NoneS THEN default ELSE e[name]

\* the enum lookup on the value as written, without .lower()
ParsePreferred_case_sensitive(e) ==
    LET preferred == GetEnv(e, "ROUTING_PROVIDER", ProviderValue[OSRM])
    IN  IF \E p \in Providers : ProviderValue[p] = preferred
        THEN CHOOSE p \in Providers : ProviderValue[p] = preferred
        ELSE OSRM

\* RoutingProvider(preferred), with the except ValueError branch
ParsePreferred(e) ==
    LET preferred == Lower(GetEnv(e, "ROUTING_PROVIDER", ProviderValue[OSRM]))
    IN  IF \E p \in Providers : ProviderValue[p] = preferred
        THEN CHOOSE p \in Providers : ProviderValue[p] = preferred
        ELSE OSRM

\* RoutingConfig.__init__
RoutingConfigInit(e) ==
    [mapbox_api_key |-> e["MAPBOX_API_KEY"],
     google_maps_api_key |-> e["GOOGLE_MAPS_API_KEY"],
     mapmyindia_api_key |-> e["MAPMYINDIA_API_KEY"],
     mapmyindia_client_id |-> e["MAPMYINDIA_CLIENT_ID"],
     mapmyindia_client_secret |-> e["MAPMYINDIA_CLIENT_SECRET"],
     osrm_base_url |-> GetEnv(e, "OSRM_BASE_URL", DefaultOsrmUrl),
     preferred_provider |-> ParsePreferred(e)]

\* RoutingConfig.is_provider_configured
is_provider_configured(cfg, provider) ==
    CASE provider = MAPBOX -> Bool(cfg.mapbox_api_key)
      [] provider = GOOGLE_MAPS -> Bool(cfg.google_maps_api_key)
      [] provider = MAPMYINDIA ->
            Bool(cfg.mapmyindia_api_key)
            \/ (Bool(cfg.mapmyindia_client_id) /\ Bool(cfg.mapmyindia_client_secret))
      [] provider = OSRM -> TRUE
      [] OTHER -> FALSE

\* RoutingConfig.get_available_providers
get_available_providers(cfg) ==
    LET ok(p) == is_provider_configured(cfg, p)
    IN  SelectSeq(RoutingProvider, ok)

\* get_fallback_chain without the configured test on the preferred provider
get_fallback_chain_always_preferred(cfg) ==
    LET other(p) == p # cfg.preferred_provider /\ is_provider_configured(cfg, p)
        chain == <<cfg.preferred_provider>> \o SelectSeq(RoutingProvider, other)
    IN  IF OSRM \notin Range(chain) THEN Append(chain, OSRM) ELSE chain

\* get_fallback_chain without the `provider != self.preferred_provider` test
get_fallback_chain_no_skip(cfg) ==
    LET other(p) == is_provider_configured(cfg, p)
        first == IF is_provider_configured(cfg, cfg.preferred_provider)
                 THEN <<cfg.preferred_provider>> ELSE <<>>
        chain == first \o SelectSeq(RoutingProvider, other)
    IN  IF OSRM \notin Range(chain) THEN Append(chain, OSRM) ELSE chain

\* RoutingConfig.get_fallback_chain
get_fallback_chain(cfg) ==
    LET other(p) == p # cfg.preferred_provider /\ is_provider_configured(cfg, p)
        first == IF is_provider_configured(cfg, cfg.preferred_provider)
                 THEN <<cfg.preferred_provider>> ELSE <<>>
        chain == first \o SelectSeq(RoutingProvider, other)
    IN  IF OSRM \notin Range(chain) THEN Append(chain, OSRM) ELSE chain

-----------------------------------------------------------------------------
(* The environments a process can start in *)

K1 == <<"k","1">>
K2 == <<"k","2">>

CredValues == {NoneS, <<>>, K1, K2}

PreferredValues ==
    {NoneS, <<>>, <<"o","s","r","m">>, <<"M","A","P","B","O","X">>,
     <<"G","o","o","g","l","e">>, <<"m","a","p","m","y","i","n","d","i","a">>,
     <<"b","i","n","g">>}

OsrmUrlValues == {NoneS, <<"http://osrm.local:5000">>}

Envs ==
    [MAPBOX_API_KEY : CredValues, GOOGLE_MAPS_API_KEY : CredValues,
     MAPMYINDIA_API_KEY : CredValues, MAPMYINDIA_CLIENT_ID : CredValues,
     MAPMYINDIA_CLIENT_SECRET : CredValues, OSRM_BASE_URL : OsrmUrlValues,
     ROUTING_PROVIDER : PreferredValues]

-----------------------------------------------------------------------------
(* What a remote service can answer to one HTTP request *)

\* a route in the OSRM response schema, shared by Mapbox and MapMyIndia
OsrmRoute ==
    [geometry |-> "polyA", distance |-> 5200, duration |-> 610,
     legs |-> << [steps |-> << [name |-> "a1"], [name |-> "a2"] >>],
                 [steps |-> << [name |-> "a3"] >>] >>]

OsrmOk == [code |-> "Ok", routes |-> <<OsrmRoute>>]
OsrmNoRoute == [code |-> "NoRoute", routes |-> <<>>]
OsrmNoRoutesKey == [message |-> "Too Many Requests"]

\* a route in the Google Directions response schema
GoogleRoute ==
    [overview_polyline |-> [points |-> "polyG"],
     legs |-> << [distance |-> [value |-> 7000], duration |-> [value |-> 900],
                  steps |-> << [html_instructions |-> "g1"] >>] >>]

GoogleOk == [status |-> "OK", routes |-> <<GoogleRoute>>]
GoogleZeroResults == [status |-> "ZERO_RESULTS", routes |-> <<>>]
GoogleDenied == [status |-> "REQUEST_DENIED", routes |-> <<>>]
GoogleOverLimit == [status |-> "OVER_QUERY_LIMIT", routes |-> <<>>]

Http(code, body) == [kind |-> "http", status_code |-> code, json_ok |-> TRUE, body |-> body]

\* a 200 whose body resp.json() cannot parse
HttpUnparsable == [kind |-> "http", status_code |-> 200, json_ok |-> FALSE, body |-> EmptyDict]

\* httpx.TimeoutException and any other transport exception
TransportFailures == {[kind |-> "timeout"], [kind |-> "connect_error"]}

ErrorStatuses == {Http(401, EmptyDict), Http(429, EmptyDict), Http(500, EmptyDict)}

OsrmSchemaReplies ==
    {Http(200, OsrmOk), Http(200, OsrmNoRoute), Http(200, OsrmNoRoutesKey),
     Http(200, EmptyDict), HttpUnparsable}
    \cup ErrorStatuses \cup TransportFailures

GoogleReplies ==
    {Http(200, GoogleOk), Http(200, GoogleZeroResults), Http(200, GoogleDenied),
     Http(200, GoogleOverLimit), Http(200, EmptyDict), HttpUnparsable}
    \cup ErrorStatuses \cup TransportFailures

RouteReplies(p) == IF p = GOOGLE_MAPS THEN GoogleReplies ELSE OsrmSchemaReplies

\* the token endpoint's answers
TokenReplies ==
    {Http(200, [access_token |-> "tokA"]), Http(200, [access_token |-> "tokB"]),
     Http(401, EmptyDict), HttpUnparsable, [kind |-> "timeout"]}

\* only the MapMyIndia client talks to the token endpoint
TokenRepliesTo(p) == IF p = MAPMYINDIA THEN TokenReplies ELSE {[kind |-> "timeout"]}

\* TravelMode = Literal["car", "bike", "walk", "transit"]
TravelMode == {"car", "bike", "walk", "transit"}

-----------------------------------------------------------------------------
(* backend/services: the provider clients.  Each get_route returns          *)
(* [result, requests, token]: the Python return value, the HTTP requests    *)
(* that were issued, and MapMyIndiaClient.token afterwards.  The TravelMode *)
(* literals are lower-case, which mode.lower() leaves as they are.          *)

Outcome(result, requests, token) ==
    [result |-> result, requests |-> requests, token |-> token]

\* mapbox.py profile_map.get(mode.lower(), "driving")
MapboxProfile(mode) ==
    CASE mode \in {"car", "driving"} -> "driving"
      [] mode \in {"walk", "walking"} -> "walking"
      [] mode \in {"bike", "cycling"} -> "cycling"
      [] OTHER -> "driving"

\* google_maps.py mode_map.get(mode.lower(), "driving")
GoogleMode(mode) ==
    CASE mode \in {"car", "driving"} -> "driving"
      [] mode \in {"walk", "walking"} -> "walking"
      [] mode \in {"bike", "cycling"} -> "bicycling"
      [] mode = "transit" -> "transit"
      [] OTHER -> "driving"

\* osrm.py: profile = "driving"; bike -> bicycle; walk -> foot
OsrmProfile(mode) ==
    CASE mode = "bike" -> "bicycle"
      [] mode = "walk" -> "foot"
      [] OTHER -> "driving"

MapboxBaseUrl == <<"https://api.mapbox.com/directions/v5">>
GoogleBaseUrl == <<"https://maps.googleapis.com/maps/api/directions/json">>
MapMyIndiaBaseUrl == <<"https://apis.mapmyindia.com/advancedmaps/v1">>
MapMyIndiaTokenUrl == <<"https://outpost.mapmyindia.com/api/security/oauth/token">>
\* OSRMClient.BASE_URL, as the server and the path on it
OsrmClientBaseUrl == <<"https://router.project-osrm.org", "/route/v1">>

\* get_route with `except httpx.TimeoutException` only: any other exception
\* leaves the call
MapboxClient_get_route_no_except(api_key, mode, reply, token) ==
    IF ~Bool(api_key) THEN Outcome(NoneV, <<>>, token)
    ELSE LET request == [base |-> MapboxBaseUrl, profile |-> MapboxProfile(mode),
                         credential |-> api_key]
             result ==
                IF reply.kind = "timeout" THEN NoneV
                ELSE IF reply.kind # "http" THEN [raised |-> "ConnectError"]
                ELSE IF reply.status_code = 200
                     THEN IF ~reply.json_ok THEN [raised |-> "JSONDecodeError"]
                          ELSE IF Len(Get(reply.body, "routes", <<>>)) > 0
                               THEN reply.body ELSE NoneV
                     ELSE NoneV
         IN  Outcome(result, <<request>>, token)

\* MapboxClient.get_route
MapboxClient_get_route(api_key, mode, reply, token) ==
    IF ~Bool(api_key) THEN Outcome(NoneV, <<>>, token)
    ELSE LET request == [base |-> MapboxBaseUrl, profile |-> MapboxProfile(mode),
                         credential |-> api_key]
             result ==
                IF reply.kind # "http" THEN NoneV
                ELSE IF reply.status_code = 200
                     THEN IF ~reply.json_ok THEN NoneV
                          ELSE IF Len(Get(reply.body, "routes", <<>>)) > 0
                               THEN reply.body ELSE NoneV
                     ELSE NoneV
         IN  Outcome(result, <<request>>, token)

\* get_route without `if not self.is_configured: return None`
GoogleMapsClient_get_route_no_guard(api_key, mode, reply, token) ==
    LET request == [base |-> GoogleBaseUrl, profile |-> GoogleMode(mode),
                         credential |-> api_key]
             result ==
                IF reply.kind # "http" THEN NoneV
                ELSE IF reply.status_code = 200
                     THEN IF ~reply.json_ok THEN NoneV
                          ELSE IF Get(reply.body, "status", "") = "OK"
                               THEN reply.body ELSE NoneV
                     ELSE NoneV
         IN  Outcome(result, <<request>>, token)

\* GoogleMapsClient.get_route
GoogleMapsClient_get_route(api_key, mode, reply, token) ==
    IF ~Bool(api_key) THEN Outcome(NoneV, <<>>, token)
    ELSE LET request == [base |-> GoogleBaseUrl, profile |-> GoogleMode(mode),
                         credential |-> api_key]
             result ==
                IF reply.kind # "http" THEN NoneV
                ELSE IF reply.status_code = 200
                     THEN IF ~reply.json_ok THEN NoneV
                          ELSE IF Get(reply.body, "status", "") = "OK"
                               THEN reply.body ELSE NoneV
                     ELSE NoneV
         IN  Outcome(result, <<request>>, token)

\* MapMyIndiaClient.__init__: self.is_configured
MapMyIndia_is_configured(e) ==
    Bool(e["MAPMYINDIA_API_KEY"])
    \/ (Bool(e["MAPMYINDIA_CLIENT_ID"]) /\ Bool(e["MAPMYINDIA_CLIENT_SECRET"]))

\* _get_token without the `if self.token: return self.token` shortcut
MapMyIndiaClient_get_token_no_cache(e, token, tokenReply) ==
    IF Bool(e["MAPMYINDIA_API_KEY"]) THEN Outcome(NoneS, <<>>, token)
    ELSE IF ~Bool(e["MAPMYINDIA_CLIENT_ID"]) \/ ~Bool(e["MAPMYINDIA_CLIENT_SECRET"])
    THEN Outcome(NoneS, <<>>, token)
    ELSE LET request == [base |-> MapMyIndiaTokenUrl, profile |-> "token",
                         credential |-> e["MAPMYINDIA_CLIENT_SECRET"]]
         IN  IF tokenReply.kind = "http" /\ tokenReply.status_code = 200 /\ tokenReply.json_ok
             THEN LET t == IF "access_token" \in DOMAIN tokenReply.body
                           THEN <<tokenReply.body["access_token"]>> ELSE NoneS
                  IN  Outcome(t, <<request>>, t)
             ELSE Outcome(NoneS, <<request>>, token)

\* MapMyIndiaClient._get_token: [result, requests, token]
MapMyIndiaClient_get_token(e, token, tokenReply) ==
    IF Bool(e["MAPMYINDIA_API_KEY"]) THEN Outcome(NoneS, <<>>, token)
    ELSE IF ~Bool(e["MAPMYINDIA_CLIENT_ID"]) \/ ~Bool(e["MAPMYINDIA_CLIENT_SECRET"])
    THEN Outcome(NoneS, <<>>, token)
    ELSE IF token # NoneS /\ token # <<>> THEN Outcome(token, <<>>, token)
    ELSE LET request == [base |-> MapMyIndiaTokenUrl, profile |-> "token",
                         credential |-> e["MAPMYINDIA_CLIENT_SECRET"]]
         IN  IF tokenReply.kind = "http" /\ tokenReply.status_code = 200 /\ tokenReply.json_ok
             THEN LET t == IF "access_token" \in DOMAIN tokenReply.body
                           THEN <<tokenReply.body["access_token"]>> ELSE NoneS
                  IN  Outcome(t, <<request>>, t)
             ELSE Outcome(NoneS, <<request>>, token)

\* MapMyIndiaClient.get_route
MapMyIndiaClient_get_route(e, mode, reply, token, tokenReply) ==
    IF ~MapMyIndia_is_configured(e) THEN Outcome(NoneV, <<>>, token)
    ELSE IF Bool(e["MAPMYINDIA_API_KEY"])
    THEN LET request == [base |-> MapMyIndiaBaseUrl, profile |-> "driving",
                         credential |-> e["MAPMYINDIA_API_KEY"]]
             result ==
                IF reply.kind # "http" THEN NoneV
                ELSE IF reply.status_code = 200
                     THEN IF ~reply.json_ok THEN NoneV ELSE reply.body
                     ELSE NoneV
         IN  Outcome(result, <<request>>, token)
    ELSE \* OAuth flow: the token is fetched, then `return None` either way
         LET t == MapMyIndiaClient_get_token(e, token, tokenReply)
         IN  Outcome(NoneV, t.requests, t.token)

\* OSRMClient.get_route
OSRMClient_get_route(mode, reply, token) ==
    LET request == [base |-> OsrmClientBaseUrl, profile |-> OsrmProfile(mode),
                    credential |-> NoneS]
        result ==
            IF reply.kind # "http" THEN NoneV
            ELSE IF reply.status_code = 200
                 THEN IF ~reply.json_ok THEN NoneV ELSE reply.body
                 ELSE NoneV
    IN  Outcome(result, <<request>>, token)

\* self.providers[provider].get_route(...), the clients as RouterManager.__init__
\* builds them: Mapbox and Google from the config's keys, MapMyIndia from the
\* environment
client_get_route(provider, e, cfg, mode, reply, token, tokenReply) ==
    CASE provider = MAPBOX -> MapboxClient_get_route(cfg.mapbox_api_key, mode, reply, token)
      [] provider = GOOGLE_MAPS ->
            GoogleMapsClient_get_route(cfg.google_maps_api_key, mode, reply, token)
      [] provider = MAPMYINDIA -> MapMyIndiaClient_get_route(e, mode, reply, token, tokenReply)
      [] provider = OSRM -> OSRMClient_get_route(mode, reply, token)

-----------------------------------------------------------------------------
(* backend/services/router_manager.py: construction and the status query *)

\* RouterManager.__init__: self.fallback_chain = self.config.get_fallback_chain()
RouterManagerInit(cfg) == get_fallback_chain(cfg)

\* get_provider_status reporting `key or False` instead of bool(key) for Mapbox
get_provider_status_rawkey(cfg, chain) ==
    [configured_providers |-> get_available_providers(cfg),
     preferred_provider |-> cfg.preferred_provider,
     fallback_chain |-> chain,
     provider_details |->
        [p \in Providers |->
            [configured |-> IF p = MAPBOX /\ Bool(cfg.mapbox_api_key)
                            THEN cfg.mapbox_api_key
                            ELSE is_provider_configured(cfg, p),
             requires_key |-> p # OSRM]]]

\* RouterManager.get_provider_status
get_provider_status(cfg, chain) ==
    [configured_providers |-> get_available_providers(cfg),
     preferred_provider |-> cfg.preferred_provider,
     fallback_chain |-> chain,
     provider_details |->
        [p \in Providers |->
            [configured |-> is_provider_configured(cfg, p),
             requires_key |-> p # OSRM]]]

MgrIdle == [pc |-> "idle"]

\* no request handler of routes/routing.py is running
HandlerIdle == [pc |-> "idle"]

\* the number of coroutines that call the shared MapMyIndia client at once
NumTasks == 2

NoTasks == [t \in 1..NumTasks |-> [pc |-> "idle"]]

\* the module-level singletons after import: routing_config, router_manager
Booted(e) ==
    /\ env = e
    /\ config = RoutingConfigInit(e)
    /\ fallback_chain = RouterManagerInit(RoutingConfigInit(e))
    /\ status = NoneV
    /\ mmi_token = NoneS
    /\ mgr = MgrIdle
    /\ served = 0
    /\ handler = HandlerIdle
    /\ tasks = NoTasks

\* routes/routing.py get_provider_status: GET /providers/status
ProviderStatusQuery ==
    /\ status' = get_provider_status(config, fallback_chain)
    /\ UNCHANGED <<bootVars, tasks, mmi_token, mgr, served, handler>>

InitConfig == \E e \in Envs : Booted(e)

NextConfig == ProviderStatusQuery

SpecConfig == InitConfig /\ [][NextConfig]_vars

-----------------------------------------------------------------------------
(* backend/services/router_manager.py: RouterManager.get_route *)

\* preferred_provider = None
NoOverride == "None"

\* the number of requests one behaviour of the process serves
MaxRequests == 2

\* the provider order without removing the override from the chain
provider_order_keep_override(cfg, chain, preferred) ==
    IF preferred # NoOverride /\ is_provider_configured(cfg, preferred)
    THEN <<preferred>> \o chain
    ELSE chain

\* "Determine provider order"
provider_order(cfg, chain, preferred) ==
    IF preferred # NoOverride /\ is_provider_configured(cfg, preferred)
    THEN LET other(p) == p # preferred IN <<preferred>> \o SelectSeq(chain, other)
    ELSE chain

\* the loop moves on after the provider at m.idx failed; after the last one
\* the function logs "All routing providers failed" and returns None
Advance(m, entry) ==
    LET logged == [m EXCEPT !.log = Append(@, entry)]
    IN  IF m.idx = Len(m.order)
        THEN [logged EXCEPT !.pc = "returned", !.result = NoneV]
        ELSE [logged EXCEPT !.idx = @ + 1]

\* the loop body without the `return result` of the success branch
on_result_no_return(m, provider, result) ==
    Advance(IF Truthy(result)
            THEN [m EXCEPT !.result = ("_provider_used" :> provider) @@ result]
            ELSE m,
            [provider |-> provider, raised |-> FALSE, result |-> result])

\* the loop body after `result = await client.get_route(...)` returned
on_result(m, provider, result) ==
    IF Truthy(result)
    THEN [m EXCEPT !.log = Append(@, [provider |-> provider, raised |-> FALSE,
                                      result |-> result]),
                   !.pc = "returned",
                   !.result = ("_provider_used" :> provider) @@ result]
    ELSE Advance(m, [provider |-> provider, raised |-> FALSE, result |-> result])

\* the loop body without its except clause: the exception leaves get_route
on_exception_propagates(m, provider) ==
    [m EXCEPT !.log = Append(@, [provider |-> provider, raised |-> TRUE, result |-> NoneV]),
              !.pc = "raised"]

\* `except Exception as e: ... continue`
on_exception(m, provider) ==
    Advance(m, [provider |-> provider, raised |-> TRUE, result |-> NoneV])

\* get_route(start, end, mode, preferred_provider) before its first await
EnterGetRoute(preferred, mode) ==
    [pc |-> "loop", preferred |-> preferred, mode |-> mode,
     order |-> provider_order(config, fallback_chain, preferred),
     idx |-> 1, log |-> <<>>, result |-> NoneV, requests |-> <<>>]

\* a caller enters get_route(start, end, mode, preferred_provider)
GetRouteCall ==
    /\ mgr.pc = "idle"
    /\ handler.pc = "idle"
    /\ served < MaxRequests
    /\ \E preferred \in Providers \cup {NoOverride}, mode \in TravelMode :
          mgr' = EnterGetRoute(preferred, mode)
    /\ UNCHANGED <<bootVars, tasks, status, mmi_token, served, handler>>

\* one iteration of the loop in which the client returns
AttemptProvider ==
    /\ mgr.pc = "loop"
    /\ LET provider == mgr.order[mgr.idx]
       IN  \E reply \in RouteReplies(provider), tokenReply \in TokenRepliesTo(provider) :
              LET out == client_get_route(provider, env, config, mgr.mode, reply,
                                          mmi_token, tokenReply)
              IN  /\ mgr' = on_result([mgr EXCEPT !.requests = @ \o out.requests],
                                      provider, out.result)
                  /\ mmi_token' = out.token
    /\ UNCHANGED <<bootVars, tasks, status, served, handler>>

\* one iteration of the loop in which the client call raises
ProviderRaises ==
    /\ mgr.pc = "loop"
    /\ mgr' = on_exception(mgr, mgr.order[mgr.idx])
    /\ UNCHANGED <<bootVars, tasks, status, mmi_token, served, handler>>

\* the caller takes the returned value
GetRouteReturn ==
    /\ mgr.pc = "returned"
    /\ handler.pc = "idle"
    /\ mgr' = MgrIdle
    /\ served' = served + 1
    /\ UNCHANGED <<bootVars, tasks, status, mmi_token, handler>>

\* environments that set OSRM_BASE_URL: no credential at all, and a Mapbox key
OsrmOverrideEnvs ==
    [MAPBOX_API_KEY : {NoneS, K1}, GOOGLE_MAPS_API_KEY : {NoneS},
     MAPMYINDIA_API_KEY : {NoneS}, MAPMYINDIA_CLIENT_ID : {NoneS},
     MAPMYINDIA_CLIENT_SECRET : {NoneS}, OSRM_BASE_URL : OsrmUrlValues \ {NoneS},
     ROUTING_PROVIDER : {NoneS}]

\* the environments of the get_route runs: every presence pattern of the
\* credentials, every resolved preferred provider
RouteEnvs ==
    [MAPBOX_API_KEY : {NoneS, K1}, GOOGLE_MAPS_API_KEY : {NoneS, K1},
     MAPMYINDIA_API_KEY : {NoneS, K1}, MAPMYINDIA_CLIENT_ID : {NoneS, K1},
     MAPMYINDIA_CLIENT_SECRET : {NoneS, K1}, OSRM_BASE_URL : {NoneS},
     ROUTING_PROVIDER : {NoneS, <<"M","A","P","B","O","X">>, <<"G","o","o","g","l","e">>,
                         <<"m","a","p","m","y","i","n","d","i","a">>}]
    \cup OsrmOverrideEnvs

Init == \E e \in RouteEnvs : Booted(e)

Next == GetRouteCall \/ AttemptProvider \/ ProviderRaises \/ GetRouteReturn

Spec == Init /\ [][Next]_vars

-----------------------------------------------------------------------------
(* Python str methods on character sequences *)

LowerToUpper ==
    [a |-> "A", b |-> "B", c |-> "C", d |-> "D", e |-> "E", f |-> "F", g |-> "G",
     h |-> "H", i |-> "I", j |-> "J", k |-> "K", l |-> "L", m |-> "M", n |-> "N",
     o |-> "O", p |-> "P", q |-> "Q", r |-> "R", s |-> "S", t |-> "T", u |-> "U",
     v |-> "V", w |-> "W", x |-> "X", y |-> "Y", z |-> "Z"]

IsLetter(c) == c \in DOMAIN LowerToUpper \/ c \in DOMAIN UpperToLower

Whitespace == {" ", "\t", "\n"}

\* str.strip()
Strip(s) ==
    LET kept == {i \in 1..Len(s) : s[i] \notin Whitespace}
    IN  IF kept = {} THEN <<>>
        ELSE LET first == CHOOSE i \in kept : \A j \in kept : i <= j
                 last == CHOOSE i \in kept : \A j \in kept : j <= i
             IN  SubSeq(s, first, last)

\* `sub in s` of two str
Contains(sub, s) ==
    \E i \in 0..(Len(s) - Len(sub)) : SubSeq(s, i + 1, i + Len(sub)) = sub

\* str.title()
Title(s) ==
    [i \in 1..Len(s) |->
        IF i = 1 \/ ~IsLetter(s[i - 1])
        THEN (IF s[i] \in DOMAIN LowerToUpper THEN LowerToUpper[s[i]] ELSE s[i])
        ELSE (IF s[i] \in DOMAIN UpperToLower THEN UpperToLower[s[i]] ELSE s[i])]

\* JSON scalars whose type the code does not check before use
Num(n) == [num |-> n]
Str(s) == [str |-> s]
JNull == [null |-> TRUE]
IsNum(v) == "num" \in DOMAIN v
IsStr(v) == "str" \in DOMAIN v

-----------------------------------------------------------------------------
(* routes/routing.py: the gazetteer.  Coordinates are in 1/10000 degree. *)

Place(lat, lon, display) == [lat |-> Num(lat), lon |-> Num(lon), display |-> Str(display)]

\* LOCATION_DB, in insertion order: <<key, value>>
LOCATION_DB ==
    <<
      <<<<"b","t","m"," ","l","a","y","o","u","t">>,
        Place(129166, 776101, <<"B","T","M"," ","L","a","y","o","u","t">>)>>,
      <<<<"m","g"," ","r","o","a","d">>,
        Place(129716, 775946, <<"M","G"," ","R","o","a","d">>)>>,
      <<<<"j","p"," ","n","a","g","a","r">>,
        Place(129067, 775858, <<"J","P"," ","N","a","g","a","r">>)>>,
      <<<<"r","i","c","h","m","o","n","d"," ","r","o","a","d">>,
        Place(129500, 776000, <<"R","i","c","h","m","o","n","d"," ","R","o","a","d">>)>>,
      <<<<"l","a","l","b","a","g","h">>,
        Place(129507, 775848, <<"L","a","l","b","a","g","h">>)>>,
      <<<<"i","n","d","i","r","a","n","a","g","a","r">>,
        Place(129784, 776408, <<"I","n","d","i","r","a","n","a","g","a","r">>)>>,
      <<<<"k","o","r","a","m","a","n","g","a","l","a">>,
        Place(129352, 776245, <<"K","o","r","a","m","a","n","g","a","l","a">>)>>,
      <<<<"w","h","i","t","e","f","i","e","l","d">>,
        Place(129698, 777499, <<"W","h","i","t","e","f","i","e","l","d">>)>>,
      <<<<"m","a","r","a","t","h","a","h","a","l","l","i">>,
        Place(129592, 776974, <<"M","a","r","a","t","h","a","h","a","l","l","i">>)>>,
      <<<<"h","e","b","b","a","l">>,
        Place(130358, 775970, <<"H","e","b","b","a","l">>)>>,
      <<<<"e","l","e","c","t","r","o","n","i","c"," ","c","i","t","y">>,
        Place(128456, 776633, <<"E","l","e","c","t","r","o","n","i","c"," ","C","i","t","y">>)>>,
      <<<<"c","u","b","b","o","n"," ","p","a","r","k">>,
        Place(129716, 775946, <<"C","u","b","b","o","n"," ","P","a","r","k">>)>>,
      <<<<"u","l","s","o","o","r">>,
        Place(129784, 776408, <<"U","l","s","o","o","r">>)>>,
      <<<<"m","a","l","l","e","s","h","w","a","r","a","m">>,
        Place(130050, 775610, <<"M","a","l","l","e","s","h","w","a","r","a","m">>)>>,
      <<<<"r","a","j","a","j","i","n","a","g","a","r">>,
        Place(129784, 775510, <<"R","a","j","a","j","i","n","a","g","a","r">>)>> >>

\* the fixed default of _geocode_location (central Bangalore)
DefaultLat == 129716
DefaultLon == 775946

-----------------------------------------------------------------------------
(* backend/services/mapbox_geocoding.py *)

MapboxGeocodingUrl == <<"https://api.mapbox.com/geocoding/v5/mapbox.places">>

GeoFeature(coordinates) == [geometry |-> [coordinates |-> coordinates]]

\* what the geocoding service can answer
GeoOk ==
    [features |-> << [geometry |-> [coordinates |-> <<Num(766394), Num(122958)>>],
                      place_name |-> Str(<<"M","y","s","u","r","u",","," ","K","a","r","n","a","t","a","k","a",","," ","I","n","d","i","a">>),
                      text |-> Str(<<"M","y","s","u","r","u">>)] >>]
GeoNoNames == [features |-> << GeoFeature(<<Num(766394), Num(122958)>>) >>]
GeoNoResults == [features |-> <<>>]
GeoShortCoordinates == [features |-> << GeoFeature(<<Num(766394)>>) >>]
GeoTextCoordinates == [features |-> << GeoFeature(<<Str(<<"x">>), Str(<<"y">>)>>) >>]
GeoNullText ==
    [features |-> << [geometry |-> [coordinates |-> <<Num(766394), Num(122958)>>],
                      text |-> JNull] >>]

\* a feature at longitude 200.0
GeoOutOfRange == [features |-> << GeoFeature(<<Num(2000000), Num(122958)>>) >>]

GeocoderReplies ==
    {Http(200, GeoOk), Http(200, GeoOutOfRange), Http(200, GeoNoNames), Http(200, GeoNoResults),
     Http(200, GeoShortCoordinates), Http(200, GeoTextCoordinates), Http(200, GeoNullText),
     HttpUnparsable}
    \cup ErrorStatuses \cup TransportFailures

\* MapboxGeocoder.geocode: [result, requests]
MapboxGeocoder_geocode(api_key, place_name, reply) ==
    IF ~Bool(api_key) THEN [result |-> NoneV, requests |-> <<>>]
    ELSE LET request == [base |-> MapboxGeocodingUrl, profile |-> "geocode",
                         credential |-> api_key]
             features == Get(reply.body, "features", <<>>)
             feature == features[1]
             coordinates == Get(Get(feature, "geometry", EmptyDict), "coordinates", <<>>)
             display_name == Get(feature, "place_name", Str(place_name))
             short_name == Get(feature, "text", display_name)
             result ==
                IF reply.kind # "http" THEN NoneV
                ELSE IF reply.status_code = 200
                     THEN IF ~reply.json_ok THEN NoneV
                          ELSE IF Len(features) > 0
                               THEN IF Len(coordinates) >= 2
                                    THEN [lat |-> coordinates[2], lon |-> coordinates[1],
                                          display |-> short_name, full_name |-> display_name]
                                    ELSE NoneV
                               ELSE NoneV
                     ELSE NoneV
         IN  [result |-> result, requests |-> <<request>>]

-----------------------------------------------------------------------------
(* routes/routing.py: _geocode_location *)

\* the first LOCATION_DB entry, in table order, that matches by containment
PartialMatches(normalized) ==
    {i \in 1..Len(LOCATION_DB) :
        Contains(normalized, LOCATION_DB[i][1]) \/ Contains(LOCATION_DB[i][1], normalized)}

\* the resolver looking up the name as written, without .lower().strip()
geocode_location_as_written(location_name, api_key, reply) ==
    LET normalized == location_name
        exact == {i \in 1..Len(LOCATION_DB) : LOCATION_DB[i][1] = normalized}
        partial == PartialMatches(normalized)
    IN  IF exact # {}
        THEN [result |-> LOCATION_DB[CHOOSE i \in exact : TRUE][2], requests |-> <<>>]
        ELSE IF partial # {}
        THEN [result |-> LOCATION_DB[CHOOSE i \in partial : \A j \in partial : i <= j][2],
              requests |-> <<>>]
        ELSE LET fallback == Place(DefaultLat, DefaultLon, Title(location_name))
             IN  IF Bool(api_key)
                 THEN LET g == MapboxGeocoder_geocode(api_key, location_name, reply)
                      IN  [result |-> IF Truthy(g.result) THEN g.result ELSE fallback,
                           requests |-> g.requests]
                 ELSE [result |-> fallback, requests |-> <<>>]

\* the resolver handing on whatever the remote geocoder returned
geocode_location_no_fallback(location_name, api_key, reply) ==
    LET normalized == Strip(Lower(location_name))
        exact == {i \in 1..Len(LOCATION_DB) : LOCATION_DB[i][1] = normalized}
        partial == PartialMatches(normalized)
    IN  IF exact # {}
        THEN [result |-> LOCATION_DB[CHOOSE i \in exact : TRUE][2], requests |-> <<>>]
        ELSE IF partial # {}
        THEN [result |-> LOCATION_DB[CHOOSE i \in partial : \A j \in partial : i <= j][2],
              requests |-> <<>>]
        ELSE LET fallback == Place(DefaultLat, DefaultLon, Title(location_name))
             IN  IF Bool(api_key)
                 THEN LET g == MapboxGeocoder_geocode(api_key, location_name, reply)
                      IN  [result |-> g.result,
                           requests |-> g.requests]
                 ELSE [result |-> fallback, requests |-> <<>>]

\* _geocode_location with the remote tier ahead of the partial match
geocode_location_remote_first(location_name, api_key, reply) ==
    LET normalized == Strip(Lower(location_name))
        exact == {i \in 1..Len(LOCATION_DB) : LOCATION_DB[i][1] = normalized}
        partial == PartialMatches(normalized)
        g == MapboxGeocoder_geocode(api_key, location_name, reply)
    IN  IF exact # {}
        THEN [result |-> LOCATION_DB[CHOOSE i \in exact : TRUE][2], requests |-> <<>>]
        ELSE IF Bool(api_key) /\ Truthy(g.result)
        THEN [result |-> g.result, requests |-> g.requests]
        ELSE IF partial # {}
        THEN [result |-> LOCATION_DB[CHOOSE i \in partial : \A j \in partial : i <= j][2],
              requests |-> IF Bool(api_key) THEN g.requests ELSE <<>>]
        ELSE [result |-> Place(DefaultLat, DefaultLon, Title(location_name)),
              requests |-> IF Bool(api_key) THEN g.requests ELSE <<>>]

\* the resolver whose loop keeps the last matching entry instead of
\* returning the first
geocode_location_last_match(location_name, api_key, reply) ==
    LET normalized == Strip(Lower(location_name))
        exact == {i \in 1..Len(LOCATION_DB) : LOCATION_DB[i][1] = normalized}
        partial == PartialMatches(normalized)
    IN  IF exact # {}
        THEN [result |-> LOCATION_DB[CHOOSE i \in exact : TRUE][2], requests |-> <<>>]
        ELSE IF partial # {}
        THEN [result |-> LOCATION_DB[CHOOSE i \in partial : \A j \in partial : j <= i][2],
              requests |-> <<>>]
        ELSE LET fallback == Place(DefaultLat, DefaultLon, Title(location_name))
             IN  IF Bool(api_key)
                 THEN LET g == MapboxGeocoder_geocode(api_key, location_name, reply)
                      IN  [result |-> IF Truthy(g.result) THEN g.result ELSE fallback,
                           requests |-> g.requests]
                 ELSE [result |-> fallback, requests |-> <<>>]

\* _geocode_location: [result, requests]
geocode_location(location_name, api_key, reply) ==
    LET normalized == Strip(Lower(location_name))
        exact == {i \in 1..Len(LOCATION_DB) : LOCATION_DB[i][1] = normalized}
        partial == PartialMatches(normalized)
    IN  IF exact # {}
        THEN [result |-> LOCATION_DB[CHOOSE i \in exact : TRUE][2], requests |-> <<>>]
        ELSE IF partial # {}
        THEN [result |-> LOCATION_DB[CHOOSE i \in partial : \A j \in partial : i <= j][2],
              requests |-> <<>>]
        ELSE LET fallback == Place(DefaultLat, DefaultLon, Title(location_name))
             IN  IF Bool(api_key)
                 THEN LET g == MapboxGeocoder_geocode(api_key, location_name, reply)
                      IN  [result |-> IF Truthy(g.result) THEN g.result ELSE fallback,
                           requests |-> g.requests]
                 ELSE [result |-> fallback, requests |-> <<>>]

-----------------------------------------------------------------------------
(* routes/routing.py: the local estimate.  Latitudes and longitudes are in
   1/10000 degree, distances in centimetres, durations in tenths of a second,
   emissions in grams, so that round(x, 2) of a distance in metres,
   round(x, 1) of a duration in seconds and round(x, 3) of a mass in
   kilograms are integers. *)

\* a / b rounded to the nearest integer, for a >= 0 and b > 0
RoundDiv(a, b) == (a \div b) + (IF 2 * (a % b) >= b THEN 1 ELSE 0)

\* a * m / d rounded to the nearest integer, without forming a * m
MulDiv(a, m, d) == (a \div d) * m + RoundDiv((a % d) * m, d)

\* r * 2 * asin(sqrt(a)) of _haversine_distance_m, evaluated with the source's
\* formula for every ordered pair of the coordinates the gazetteer, the fixed
\* default and the geocoder replies (Mysuru, longitude 200.0) can produce: <<lat1, lon1, lat2, lon2, cm>>
HaversineRows ==
    { <<129166, 776101, 129166, 776101, 0>>, <<129166, 776101, 129716, 775946, 634220>>, <<129166, 776101, 129067, 775858, 285452>>,
      <<129166, 776101, 129500, 776000, 387185>>, <<129166, 776101, 129507, 775848, 467922>>, <<129166, 776101, 129784, 776408, 763482>>,
      <<129166, 776101, 129352, 776245, 259097>>, <<129166, 776101, 129698, 777499, 1626405>>, <<129166, 776101, 129592, 776974, 1058048>>,
      <<129166, 776101, 130358, 775970, 1333023>>, <<129166, 776101, 128456, 776633, 977667>>, <<129166, 776101, 130050, 775610, 1117722>>,
      <<129166, 776101, 129784, 775510, 939364>>, <<129166, 776101, 122958, 766394, 12593815>>, <<129716, 775946, 129166, 776101, 634220>>,
      <<129716, 775946, 129716, 775946, 0>>, <<129716, 775946, 129067, 775858, 727929>>, <<129716, 775946, 129500, 776000, 247206>>,
      <<129716, 775946, 129507, 775848, 255511>>, <<129716, 775946, 129784, 776408, 506282>>, <<129716, 775946, 129352, 776245, 518465>>,
      <<129716, 775946, 129698, 777499, 1682915>>, <<129716, 775946, 129592, 776974, 1122443>>, <<129716, 775946, 130358, 775970, 714345>>,
      <<129716, 775946, 128456, 776633, 1586629>>, <<129716, 775946, 130050, 775610, 520066>>, <<129716, 775946, 129784, 775510, 478444>>,
      <<129716, 775946, 122958, 766394, 12801686>>, <<129067, 775858, 129166, 776101, 285452>>, <<129067, 775858, 129716, 775946, 727929>>,
      <<129067, 775858, 129067, 775858, 0>>, <<129067, 775858, 129500, 776000, 505471>>, <<129067, 775858, 129507, 775848, 489378>>,
      <<129067, 775858, 129784, 776408, 995436>>, <<129067, 775858, 129352, 776245, 525689>>, <<129067, 775858, 129698, 777499, 1911791>>,
      <<129067, 775858, 129592, 776974, 1342973>>, <<129067, 775858, 130358, 775970, 1440647>>, <<129067, 775858, 128456, 776633, 1080434>>,
      <<129067, 775858, 130050, 775610, 1125599>>, <<129067, 775858, 129784, 775510, 881964>>, <<129067, 775858, 122958, 766394, 12313207>>,
      <<129500, 776000, 129166, 776101, 387185>>, <<129500, 776000, 129716, 775946, 247206>>, <<129500, 776000, 129067, 775858, 505471>>,
      <<129500, 776000, 129500, 776000, 0>>, <<129500, 776000, 129507, 775848, 164901>>, <<129500, 776000, 129784, 776408, 543312>>,
      <<129500, 776000, 129352, 776245, 312372>>, <<129500, 776000, 129698, 777499, 1639206>>, <<129500, 776000, 129592, 776974, 1060419>>,
      <<129500, 776000, 130358, 775970, 954606>>, <<129500, 776000, 128456, 776633, 1348470>>, <<129500, 776000, 130050, 775610, 743369>>,
      <<129500, 776000, 129784, 775510, 617780>>, <<129500, 776000, 122958, 766394, 12710559>>, <<129507, 775848, 129166, 776101, 467922>>,
      <<129507, 775848, 129716, 775946, 255511>>, <<129507, 775848, 129067, 775858, 489378>>, <<129507, 775848, 129500, 776000, 164901>>,
      <<129507, 775848, 129507, 775848, 0>>, <<129507, 775848, 129784, 776408, 680514>>, <<129507, 775848, 129352, 776245, 463467>>,
      <<129507, 775848, 129698, 777499, 1801624>>, <<129507, 775848, 129592, 776974, 1223841>>, <<129507, 775848, 130358, 775970, 955457>>,
      <<129507, 775848, 128456, 776633, 1445586>>, <<129507, 775848, 130050, 775610, 656555>>, <<129507, 775848, 129784, 775510, 478555>>,
      <<129507, 775848, 122958, 766394, 12580158>>, <<129784, 776408, 129166, 776101, 763482>>, <<129784, 776408, 129716, 775946, 506282>>,
      <<129784, 776408, 129067, 775858, 995436>>, <<129784, 776408, 129500, 776000, 543312>>, <<129784, 776408, 129507, 775848, 680514>>,
      <<129784, 776408, 129784, 776408, 0>>, <<129784, 776408, 129352, 776245, 511808>>, <<129784, 776408, 129698, 777499, 1186029>>,
      <<129784, 776408, 129592, 776974, 649406>>, <<129784, 776408, 130358, 775970, 795337>>, <<129784, 776408, 128456, 776633, 1496669>>,
      <<129784, 776408, 130050, 775610, 913814>>, <<129784, 776408, 129784, 775510, 973023>>, <<129784, 776408, 122958, 766394, 13253828>>,
      <<129352, 776245, 129166, 776101, 259097>>, <<129352, 776245, 129716, 775946, 518465>>, <<129352, 776245, 129067, 775858, 525689>>,
      <<129352, 776245, 129500, 776000, 312372>>, <<129352, 776245, 129507, 775848, 463467>>, <<129352, 776245, 129784, 776408, 511808>>,
      <<129352, 776245, 129352, 776245, 0>>, <<129352, 776245, 129698, 777499, 1412319>>, <<129352, 776245, 129592, 776974, 833860>>,
      <<129352, 776245, 130358, 775970, 1157625>>, <<129352, 776245, 128456, 776633, 1081434>>, <<129352, 776245, 130050, 775610, 1037227>>,
      <<129352, 776245, 129784, 775510, 930118>>, <<129352, 776245, 122958, 766394, 12837845>>, <<129698, 777499, 129166, 776101, 1626405>>,
      <<129698, 777499, 129716, 775946, 1682915>>, <<129698, 777499, 129067, 775858, 1911791>>, <<129698, 777499, 129500, 776000, 1639206>>,
      <<129698, 777499, 129507, 775848, 1801624>>, <<129698, 777499, 129784, 776408, 1186029>>, <<129698, 777499, 129352, 776245, 1412319>>,
      <<129698, 777499, 129698, 777499, 0>>, <<129698, 777499, 129592, 776974, 580974>>, <<129698, 777499, 130358, 775970, 1811859>>,
      <<129698, 777499, 128456, 776633, 1669812>>, <<129698, 777499, 130050, 775610, 2083830>>, <<129698, 777499, 129784, 775510, 2157327>>,
      <<129698, 777499, 122958, 766394, 14189814>>, <<129592, 776974, 129166, 776101, 1058048>>, <<129592, 776974, 129716, 775946, 1122443>>,
      <<129592, 776974, 129067, 775858, 1342973>>, <<129592, 776974, 129500, 776000, 1060419>>, <<129592, 776974, 129507, 775848, 1223841>>,
      <<129592, 776974, 129784, 776408, 649406>>, <<129592, 776974, 129352, 776245, 833860>>, <<129592, 776974, 129698, 777499, 580974>>,
      <<129592, 776974, 129592, 776974, 0>>, <<129592, 776974, 130358, 775970, 1381586>>, <<129592, 776974, 128456, 776633, 1316136>>,
      <<129592, 776974, 130050, 775610, 1563216>>, <<129592, 776974, 129784, 775510, 1600672>>, <<129592, 776974, 122958, 766394, 13645538>>,
      <<130358, 775970, 129166, 776101, 1333023>>, <<130358, 775970, 129716, 775946, 714345>>, <<130358, 775970, 129067, 775858, 1440647>>,
      <<130358, 775970, 129500, 776000, 954606>>, <<130358, 775970, 129507, 775848, 955457>>, <<130358, 775970, 129784, 776408, 795337>>,
      <<130358, 775970, 129352, 776245, 1157625>>, <<130358, 775970, 129698, 777499, 1811859>>, <<130358, 775970, 129592, 776974, 1381586>>,
      <<130358, 775970, 130358, 775970, 0>>, <<130358, 775970, 128456, 776633, 2233642>>, <<130358, 775970, 130050, 775610, 519038>>,
      <<130358, 775970, 129784, 775510, 809784>>, <<130358, 775970, 122958, 766394, 13252722>>, <<128456, 776633, 129166, 776101, 977667>>,
      <<128456, 776633, 129716, 775946, 1586629>>, <<128456, 776633, 129067, 775858, 1080434>>, <<128456, 776633, 129500, 776000, 1348470>>,
      <<128456, 776633, 129507, 775848, 1445586>>, <<128456, 776633, 129784, 776408, 1496669>>, <<128456, 776633, 129352, 776245, 1081434>>,
      <<128456, 776633, 129698, 777499, 1669812>>, <<128456, 776633, 129592, 776974, 1316136>>, <<128456, 776633, 130358, 775970, 2233642>>,
      <<128456, 776633, 128456, 776633, 0>>, <<128456, 776633, 130050, 775610, 2090643>>, <<128456, 776633, 129784, 775510, 1913633>>,
      <<128456, 776633, 122958, 766394, 12682955>>, <<130050, 775610, 129166, 776101, 1117722>>, <<130050, 775610, 129716, 775946, 520066>>,
      <<130050, 775610, 129067, 775858, 1125599>>, <<130050, 775610, 129500, 776000, 743369>>, <<130050, 775610, 129507, 775848, 656555>>,
      <<130050, 775610, 129784, 776408, 913814>>, <<130050, 775610, 129352, 776245, 1037227>>, <<130050, 775610, 129698, 777499, 2083830>>,
      <<130050, 775610, 129592, 776974, 1563216>>, <<130050, 775610, 130358, 775970, 519038>>, <<130050, 775610, 128456, 776633, 2090643>>,
      <<130050, 775610, 130050, 775610, 0>>, <<130050, 775610, 129784, 775510, 314999>>, <<130050, 775610, 122958, 766394, 12734428>>,
      <<129784, 775510, 129166, 776101, 939364>>, <<129784, 775510, 129716, 775946, 478444>>, <<129784, 775510, 129067, 775858, 881964>>,
      <<129784, 775510, 129500, 776000, 617780>>, <<129784, 775510, 129507, 775848, 478555>>, <<129784, 775510, 129784, 776408, 973023>>,
      <<129784, 775510, 129352, 776245, 930118>>, <<129784, 775510, 129698, 777499, 2157327>>, <<129784, 775510, 129592, 776974, 1600672>>,
      <<129784, 775510, 130358, 775970, 809784>>, <<129784, 775510, 128456, 776633, 1913633>>, <<129784, 775510, 130050, 775610, 314999>>,
      <<129784, 775510, 129784, 775510, 0>>, <<129784, 775510, 122958, 766394, 12467581>>, <<122958, 766394, 129166, 776101, 12593815>>,
      <<122958, 766394, 129716, 775946, 12801686>>, <<122958, 766394, 129067, 775858, 12313207>>, <<122958, 766394, 129500, 776000, 12710559>>,
      <<122958, 766394, 129507, 775848, 12580158>>, <<122958, 766394, 129784, 776408, 13253828>>, <<122958, 766394, 129352, 776245, 12837845>>,
      <<122958, 766394, 129698, 777499, 14189814>>, <<122958, 766394, 129592, 776974, 13645538>>, <<122958, 766394, 130358, 775970, 13252722>>,
      <<122958, 766394, 128456, 776633, 12682955>>, <<122958, 766394, 130050, 775610, 12734428>>, <<122958, 766394, 129784, 775510, 12467581>>,
      <<122958, 766394, 122958, 766394, 0>>,
      <<129166, 776101, 122958, 2000000, 1307111315>>, <<122958, 2000000, 129166, 776101, 1307111315>>, <<129716, 775946, 122958, 2000000, 1307043562>>,
      <<122958, 2000000, 129716, 775946, 1307043562>>, <<129067, 775858, 122958, 2000000, 1307396704>>, <<122958, 2000000, 129067, 775858, 1307396704>>,
      <<129500, 776000, 122958, 2000000, 1307077147>>, <<122958, 2000000, 129500, 776000, 1307077147>>, <<129507, 775848, 122958, 2000000, 1307227553>>,
      <<122958, 2000000, 129507, 775848, 1307227553>>, <<129784, 776408, 122958, 2000000, 1306550077>>, <<122958, 2000000, 129784, 776408, 1306550077>>,
      <<129352, 776245, 122958, 2000000, 1306890368>>, <<122958, 2000000, 129352, 776245, 1306890368>>, <<129698, 777499, 122958, 2000000, 1305484914>>,
      <<122958, 2000000, 129698, 777499, 1305484914>>, <<129592, 776974, 122958, 2000000, 1306057505>>, <<122958, 2000000, 129592, 776974, 1306057505>>,
      <<130358, 775970, 122958, 2000000, 1306757480>>, <<122958, 2000000, 130358, 775970, 1306757480>>, <<128456, 776633, 122958, 2000000, 1306863225>>,
      <<122958, 2000000, 128456, 776633, 1306863225>>, <<130050, 775610, 122958, 2000000, 1307245986>>, <<122958, 2000000, 130050, 775610, 1307245986>>,
      <<129784, 775510, 122958, 2000000, 1307455333>>, <<122958, 2000000, 129784, 775510, 1307455333>>, <<122958, 766394, 122958, 2000000, 1319442642>>,
      <<122958, 2000000, 122958, 766394, 1319442642>>, <<122958, 2000000, 122958, 2000000, 0>> }

haversine_distance_m(lat1, lon1, lat2, lon2) ==
    (CHOOSE r \in HaversineRows :
        r[1] = lat1 /\ r[2] = lon1 /\ r[3] = lat2 /\ r[4] = lon2)[5]

\* _estimate_speed_mps, in cm/s
estimate_speed_mps(mode) ==
    IF mode = "walk" THEN 140
    ELSE IF mode = "bike" THEN 410
    ELSE IF mode = "transit" THEN 830
    ELSE 1390

\* distance_m / speed_mps if speed_mps > 0 else 0
estimate_duration(distance, mode) ==
    IF estimate_speed_mps(mode) > 0
    THEN MulDiv(distance, 10, estimate_speed_mps(mode))
    ELSE 0

\* _estimate_co2_kg: kg per km is 0.08 for transit and 0.18 for car
estimate_co2_kg(distance, mode) ==
    IF mode = "walk" \/ mode = "bike" THEN 0
    ELSE IF mode = "transit" THEN MulDiv(distance, 8, 10000)
    ELSE MulDiv(distance, 18, 10000)

\* any(x in event_norm for x in keywords)
AnyIn(keywords, text) == \E k \in keywords : Contains(k, text)

ProtestWords == {<<"r","a","l","l","y">>, <<"p","r","o","t","e","s","t">>, <<"p","a","r","a","d","e">>, <<"p","o","l","i","t","i","c","a","l">>}
ClosureWords == {<<"c","l","o","s","u","r","e">>, <<"a","c","c","i","d","e","n","t">>, <<"c","o","n","s","t","r","u","c","t","i","o","n">>}
CongestionWords == {<<"c","o","n","c","e","r","t">>, <<"s","p","o","r","t","s">>, <<"e","v","e","n","t">>}

\* the event branch of suggest_text_route: [distance, reason]
apply_event(distance, reason, event) ==
    LET event_norm == Strip(Lower(event))
    IN  IF event = <<>> THEN [distance |-> distance, reason |-> reason]
        ELSE IF AnyIn(ProtestWords, event_norm)
        THEN [distance |-> MulDiv(distance, 12, 10),
              reason |-> <<"A","v","o","i","d","i","n","g"," ">> \o Lower(event) \o <<" ","c","o","n","g","e","s","t","i","o","n">>]
        ELSE IF AnyIn(ClosureWords, event_norm)
        THEN [distance |-> MulDiv(distance, 13, 10),
              reason |-> <<"D","e","t","o","u","r","i","n","g"," ","a","r","o","u","n","d"," ">> \o Lower(event)]
        ELSE IF AnyIn(CongestionWords, event_norm)
        THEN [distance |-> MulDiv(distance, 23, 20),
              reason |-> <<"A","v","o","i","d","i","n","g"," ">> \o Lower(event) \o <<" ","t","r","a","f","f","i","c">>]
        ELSE [distance |-> distance, reason |-> reason]

-----------------------------------------------------------------------------
(* routes/routing.py: _generate_waypoints *)

JUNCTIONS ==
    ("Silk Board" :> Place(129176, 776233, <<"S","i","l","k"," ","B","o","a","r","d"," ","J","u","n","c","t","i","o","n">>))
    @@ ("Dairy Circle" :> Place(129385, 776015, <<"D","a","i","r","y"," ","C","i","r","c","l","e">>))
    @@ ("Richmond Circle" :> Place(129600, 775969, <<"R","i","c","h","m","o","n","d"," ","C","i","r","c","l","e">>))
    @@ ("Sony World" :> Place(129352, 776245, <<"S","o","n","y"," ","W","o","r","l","d"," ","J","u","n","c","t","i","o","n">>))
    @@ ("Tin Factory" :> Place(129940, 776800, <<"T","i","n"," ","F","a","c","t","o","r","y">>))

\* _generate_waypoints: [waypoints, reason, intermediates]
generate_waypoints(source, destination, event) ==
    LET source_norm == Strip(Lower(source))
        dest_norm == Strip(Lower(destination))
        event_norm == Strip(Lower(event))
        Via(names, points, reason) ==
            [names |-> names, intermediates |-> points, reason |-> reason]
        route ==
            IF Contains(<<"b","t","m">>, source_norm) /\ Contains(<<"m","g"," ","r","o","a","d">>, dest_norm)
            THEN IF \/ Contains(<<"r","a","l","l","y">>, event_norm)
                    \/ Contains(<<"p","r","o","t","e","s","t">>, event_norm)
                    \/ Contains(<<"l","a","l","b","a","g","h">>, event_norm)
                 THEN Via(<<<<"D","a","i","r","y"," ","C","i","r","c","l","e">>, <<"R","i","c","h","m","o","n","d"," ","R","o","a","d">>>>,
                          <<JUNCTIONS["Dairy Circle"], JUNCTIONS["Richmond Circle"]>>,
                          <<"A","v","o","i","d","i","n","g"," ","r","a","l","l","y"," ","c","o","n","g","e","s","t","i","o","n"," ","n","e","a","r"," ","L","a","l","b","a","g","h"," ","v","i","a"," ","D","a","i","r","y"," ","C","i","r","c","l","e">>)
                 ELSE Via(<<<<"R","i","c","h","m","o","n","d"," ","R","o","a","d">>>>, <<JUNCTIONS["Richmond Circle"]>>,
                          <<"O","p","t","i","m","a","l"," ","r","o","u","t","e"," ","v","i","a"," ","R","i","c","h","m","o","n","d"," ","C","i","r","c","l","e">>)
            ELSE IF Contains(<<"b","t","m">>, source_norm) /\ Contains(<<"k","o","r","a","m","a","n","g","a","l","a">>, dest_norm)
            THEN Via(<<<<"S","o","n","y"," ","W","o","r","l","d"," ","J","u","n","c","t","i","o","n">>>>, <<JUNCTIONS["Sony World"]>>,
                     <<"D","i","r","e","c","t"," ","r","o","u","t","e"," ","v","i","a"," ","S","o","n","y"," ","W","o","r","l","d"," ","J","u","n","c","t","i","o","n">>)
            ELSE IF Contains(<<"w","h","i","t","e","f","i","e","l","d">>, source_norm) /\ Contains(<<"m","g"," ","r","o","a","d">>, dest_norm)
            THEN Via(<<<<"T","i","n"," ","F","a","c","t","o","r","y">>, <<"I","n","d","i","r","a","n","a","g","a","r">>>>, <<JUNCTIONS["Tin Factory"]>>,
                     <<"S","t","a","n","d","a","r","d"," ","r","o","u","t","e"," ","v","i","a"," ","T","i","n"," ","F","a","c","t","o","r","y"," ","a","n","d"," ","O","l","d"," ","M","a","d","r","a","s"," ","R","o","a","d">>)
            ELSE IF Contains(<<"e","l","e","c","t","r","o","n","i","c"," ","c","i","t","y">>, source_norm) /\ Contains(<<"m","g"," ","r","o","a","d">>, dest_norm)
            THEN Via(<<<<"S","i","l","k"," ","B","o","a","r","d">>, <<"D","a","i","r","y"," ","C","i","r","c","l","e">>>>,
                     <<JUNCTIONS["Silk Board"], JUNCTIONS["Dairy Circle"]>>,
                     <<"R","o","u","t","e"," ","v","i","a"," ","S","i","l","k"," ","B","o","a","r","d"," ","a","n","d"," ","D","a","i","r","y"," ","C","i","r","c","l","e">>)
            ELSE IF event_norm # <<>>
            THEN Via(<<<<"A","l","t","e","r","n","a","t","e"," ","C","o","n","n","e","c","t","i","o","n">>>>, <<>>,
                     <<"A","v","o","i","d","i","n","g"," ">> \o event \o <<" ","b","y"," ","t","a","k","i","n","g"," ","a","l","t","e","r","n","a","t","e"," ","r","o","u","t","e">>)
            ELSE Via(<<<<"D","i","r","e","c","t"," ","C","o","n","n","e","c","t","i","o","n">>>>, <<>>, <<"S","t","a","n","d","a","r","d"," ","r","o","u","t","e"," ","r","e","c","o","m","m","e","n","d","a","t","i","o","n">>)
    IN  [waypoints |-> <<source>> \o route.names \o <<destination>>,
         reason |-> route.reason,
         intermediates |-> route.intermediates]

-----------------------------------------------------------------------------
(* routes/routing.py: suggest_text_route between its awaits *)

NoException == "None"

\* lines 529-561: the narrative and the local estimate, or the exception that
\* leaves the handler; the display names and coordinates are used as found in
\* the geocoding results
suggest_estimate(payload, source_coords, dest_coords) ==
    LET source == Get(source_coords, "display", Str(payload.source))
        destination == Get(dest_coords, "display", Str(payload.destination))
        narrative == generate_waypoints(source.str, destination.str, payload.event)
        numeric == /\ IsNum(source_coords.lat) /\ IsNum(source_coords.lon)
                   /\ IsNum(dest_coords.lat) /\ IsNum(dest_coords.lon)
        distance_m == haversine_distance_m(source_coords.lat.num, source_coords.lon.num,
                                           dest_coords.lat.num, dest_coords.lon.num)
        adjusted == apply_event(distance_m, narrative.reason, payload.event)
    IN  IF ~IsStr(source) \/ ~IsStr(destination) THEN [raised |-> "AttributeError"]
        ELSE IF ~numeric THEN [raised |-> "TypeError"]
        ELSE [raised |-> NoException,
              waypoints |-> narrative.waypoints,
              reason |-> adjusted.reason,
              intermediate_points |-> narrative.intermediates,
              distance_m |-> adjusted.distance,
              duration_s |-> estimate_duration(adjusted.distance, payload.mode),
              co2_kg |-> estimate_co2_kg(adjusted.distance, payload.mode)]

RECURSIVE leg_steps(_)
\* for leg in legs: steps.extend(leg.get("steps", []))
leg_steps(legs) ==
    IF legs = <<>> THEN <<>>
    ELSE Get(Head(legs), "steps", <<>>) \o leg_steps(Tail(legs))

RECURSIVE Join(_, _)
\* sep.join(parts)
Join(sep, parts) ==
    IF parts = <<>> THEN <<>>
    ELSE IF Len(parts) = 1 THEN parts[1]
    ELSE parts[1] \o sep \o Join(sep, Tail(parts))

\* " -> " with the arrow U+2192 as one character
ArrowSeparator == <<" ", "U+2192", " ">>

Step(instruction, distance, duration, point, maneuver) ==
    [instruction |-> instruction, distance |-> distance, duration |-> duration,
     maneuver |-> [location |-> <<point.lon.num, point.lat.num>>,
                   instruction |-> maneuver]]

\* lines 599-626: the path and the mock steps built when no geometry came back
fallback_geometry(source_coords, intermediate_points, dest_coords) ==
    <<<<source_coords.lat.num, source_coords.lon.num>>>>
    \o [i \in 1..Len(intermediate_points) |->
            <<intermediate_points[i].lat.num, intermediate_points[i].lon.num>>]
    \o <<<<dest_coords.lat.num, dest_coords.lon.num>>>>

fallback_steps(waypoints, source_coords, intermediate_points, dest_coords) ==
    <<Step(<<"S","t","a","r","t"," ","f","r","o","m"," ">> \o waypoints[1], 0, 0, source_coords,
           <<"S","t","a","r","t"," ","f","r","o","m"," ">> \o waypoints[1])>>
    \o [i \in 1..Len(intermediate_points) |->
            Step(<<"H","e","a","d"," ","t","o","w","a","r","d"," ">> \o intermediate_points[i].display.str, 500, 60,
                 intermediate_points[i],
                 <<"P","a","s","s"," ","t","h","r","o","u","g","h"," ">> \o intermediate_points[i].display.str)]
    \o <<Step(<<"A","r","r","i","v","e"," ","a","t"," ">> \o waypoints[Len(waypoints)], 200, 30, dest_coords,
              <<"A","r","r","i","v","e"," ","a","t"," ">> \o waypoints[Len(waypoints)])>>

\* a handler that drops the intermediate waypoints once a provider served
\* the route
suggest_response_routed_narrative(local, source_coords, dest_coords, route_resp) ==
    LET routes == Get(route_resp, "routes", <<>>)
        routed == Truthy(route_resp) /\ routes # <<>>
        route == routes[1]
        geometry == IF routed THEN Get(route, "geometry", "") ELSE ""
        distance_m == IF routed /\ "distance" \in DOMAIN route
                      THEN route.distance * 100 ELSE local.distance_m
        duration_s == IF routed /\ "duration" \in DOMAIN route
                      THEN route.duration * 10 ELSE local.duration_s
        provider_steps == IF routed THEN leg_steps(Get(route, "legs", <<>>)) ELSE <<>>
        waypoints == IF routed THEN <<Head(local.waypoints), local.waypoints[Len(local.waypoints)]>>
                     ELSE local.waypoints
    IN  [recommended_route |-> Join(ArrowSeparator, waypoints),
         reason |-> local.reason,
         distance_meters |-> distance_m,
         distance_km |-> RoundDiv(distance_m, 1000),
         duration_seconds |-> duration_s,
         duration_minutes |-> RoundDiv(duration_s, 60),
         estimated_co2_kg |-> local.co2_kg,
         waypoints |-> waypoints,
         geometry |-> geometry,
         detailed_geometry |->
            IF geometry = ""
            THEN fallback_geometry(source_coords, local.intermediate_points, dest_coords)
            ELSE <<>>,
         steps |->
            IF geometry = ""
            THEN provider_steps \o fallback_steps(local.waypoints, source_coords,
                                                  local.intermediate_points, dest_coords)
            ELSE provider_steps,
         start_point |-> source_coords,
         end_point |-> dest_coords]

\* lines 563-645: what the handler makes of the value (or exception) that
\* router_manager.get_route produced
suggest_response(local, source_coords, dest_coords, route_resp) ==
    LET routes == Get(route_resp, "routes", <<>>)
        routed == Truthy(route_resp) /\ routes # <<>>
        route == routes[1]
        geometry == IF routed THEN Get(route, "geometry", "") ELSE ""
        distance_m == IF routed /\ "distance" \in DOMAIN route
                      THEN route.distance * 100 ELSE local.distance_m
        duration_s == IF routed /\ "duration" \in DOMAIN route
                      THEN route.duration * 10 ELSE local.duration_s
        provider_steps == IF routed THEN leg_steps(Get(route, "legs", <<>>)) ELSE <<>>
    IN  [recommended_route |-> Join(ArrowSeparator, local.waypoints),
         reason |-> local.reason,
         distance_meters |-> distance_m,
         distance_km |-> RoundDiv(distance_m, 1000),
         duration_seconds |-> duration_s,
         duration_minutes |-> RoundDiv(duration_s, 60),
         estimated_co2_kg |-> local.co2_kg,
         waypoints |-> local.waypoints,
         geometry |-> geometry,
         detailed_geometry |->
            IF geometry = ""
            THEN fallback_geometry(source_coords, local.intermediate_points, dest_coords)
            ELSE <<>>,
         steps |->
            IF geometry = ""
            THEN provider_steps \o fallback_steps(local.waypoints, source_coords,
                                                  local.intermediate_points, dest_coords)
            ELSE provider_steps,
         start_point |-> source_coords,
         end_point |-> dest_coords]

-----------------------------------------------------------------------------
(* routes/routing.py: plan_route and plan_alternate_route *)

\* the names bound at module level in routes/routing.py (imports and
\* assignments, lines 1-21)
RoutingModuleGlobals ==
    {"radians", "cos", "sin", "asin", "sqrt", "List", "Literal", "Optional", "Dict",
     "Any", "APIRouter", "HTTPException", "BaseModel", "Field", "logging",
     "router_manager", "OSRMClient", "MapboxGeocoder", "routing_config", "logger",
     "osrm_client", "mapbox_geocoder", "router"}

Coordinate(lat, lon) == [lat |-> lat, lon |-> lon]

RouteResponse(payload, distance_m, duration_s, co2_kg, geometry, implementation) ==
    [waypoints |-> <<payload.origin, payload.destination>>,
     legs |-> << [start |-> payload.origin, end |-> payload.destination,
                  distance_meters |-> distance_m, duration_seconds |-> duration_s,
                  mode |-> payload.mode, geometry |-> geometry] >>,
     summary |-> [distance_meters |-> distance_m, duration_seconds |-> duration_s,
                  estimated_co2_kg |-> co2_kg],
     debug |-> [implementation |-> implementation]]

\* plan_route: [raised, token, response]
plan_route(payload, e, reply, token, tokenReply) ==
    IF "mmi_client" \notin RoutingModuleGlobals
    THEN [raised |-> "NameError", token |-> token]
    ELSE LET out == MapMyIndiaClient_get_route(e, payload.mode, reply, token, tokenReply)
             routes == Get(out.result, "routes", <<>>)
             route == routes[1]
             live == Truthy(out.result) /\ routes # <<>>
             distance_m == haversine_distance_m(payload.origin.lat, payload.origin.lon,
                                                payload.destination.lat,
                                                payload.destination.lon)
         IN  [raised |-> NoException, token |-> out.token,
              response |->
                IF live
                THEN RouteResponse(payload, Get(route, "distance", 0) * 100,
                                   Get(route, "duration", 0) * 10,
                                   estimate_co2_kg(Get(route, "distance", 0) * 100,
                                                   payload.mode),
                                   Get(route, "geometry", ""), "mapmyindia_live")
                ELSE RouteResponse(payload, distance_m,
                                   estimate_duration(distance_m, payload.mode),
                                   estimate_co2_kg(distance_m, payload.mode),
                                   "", "haversine_stub")]

\* the impact factor of plan_alternate_route as <<numerator, denominator>>
event_type_factor(event_type) ==
    LET normalized == Strip(Lower(event_type))
    IN  IF normalized \in {<<"r","o","a","d","_","c","l","o","s","u","r","e">>, <<"a","c","c","i","d","e","n","t">>, <<"c","o","n","s","t","r","u","c","t","i","o","n">>}
        THEN <<13, 10>>
        ELSE IF normalized \in {<<"p","r","o","t","e","s","t">>, <<"r","a","l","l","y">>, <<"p","a","r","a","d","e">>}
        THEN <<12, 10>>
        ELSE IF normalized \in {<<"c","o","n","c","e","r","t">>, <<"s","p","o","r","t","s">>, <<"e","v","e","n","t">>}
        THEN <<23, 20>>
        ELSE <<21, 20>>

\* the explanation plan_alternate_route gives for the factor it chose
event_type_reason(event_type) ==
    LET factor == event_type_factor(event_type)
    IN  IF factor = <<13, 10>>
        THEN "Road closures typically force a detour around the blocked segment, so we assume about 30% extra distance and time."
        ELSE IF factor = <<12, 10>>
        THEN "Protests and rallies can slow traffic and partially block streets, so we assume around 20% extra distance and time."
        ELSE IF factor = <<23, 20>>
        THEN "Large events create localized congestion near the venue, so we assume a 15% increase in distance and travel time for a smarter route."
        ELSE "Unknown event type. We apply a small 5% buffer as a conservative detour estimate while keeping the route close to the base plan."

\* plan_alternate_route: [raised, token, response]
plan_alternate_route(payload, e, reply, token, tokenReply) ==
    LET base == plan_route(payload, e, reply, token, tokenReply)
        factor == event_type_factor(payload.event_type)
        alt_distance == MulDiv(base.response.summary.distance_meters, factor[1],
                               factor[2])
        alt_duration == MulDiv(base.response.summary.duration_seconds, factor[1],
                               factor[2])
    IN  IF base.raised # NoException THEN base
        ELSE [raised |-> NoException, token |-> base.token,
              response |->
                [base_route |-> base.response,
                 alternate_route |->
                    [RouteResponse(payload, alt_distance, alt_duration,
                                   estimate_co2_kg(alt_distance, payload.mode), "",
                                   "event_type_multiplier_stub")
                        EXCEPT !.debug = [implementation |-> "event_type_multiplier_stub",
                                          event_type |-> payload.event_type,
                                          multiplier |-> factor]],
                 reasoning |-> event_type_reason(payload.event_type)]]

-----------------------------------------------------------------------------
(* The request handlers as steps between awaits *)

\* POST /suggest bodies
TextRouteRequests ==
    [source : {<<"B","T","M"," ","L","a","y","o","u","t">>, <<"M","y","s","o","r","e">>},
     destination : {<<"M","G"," ","R","o","a","d">>, <<"H","a","m","p","i">>},
     event : {<<>>, <<"P","o","l","i","t","i","c","a","l"," ","R","a","l","l","y">>, <<"M","a","r","a","t","h","o","n">>},
     mode : {"car", "walk"}]
    \cup {[source |-> <<"B","T","M"," ","L","a","y","o","u","t">>,
            destination |-> <<"M","G"," ","R","o","a","d">>,
            event |-> <<"R","a","l","l","y"," ","a","f","t","e","r"," ","r","o","a","d"," ","c","l","o","s","u","r","e">>,
            mode |-> "car"]}

PlanPoints == {Coordinate(129166, 776101), Coordinate(129716, 775946)}

\* POST /plan bodies that passed validation
RouteRequests == [origin : PlanPoints, destination : PlanPoints, mode : {"car", "walk"}]

\* POST /plan/alternate bodies that passed validation
AlternateRouteRequests ==
    [origin : PlanPoints, destination : PlanPoints, mode : {"car", "walk"},
     event_type : {<<"p","r","o","t","e","s","t">>, <<"p","i","c","n","i","c">>}]

\* a handler that ran to its end: the response it returned or the exception
\* that left it
Finished(name, payload, out) ==
    IF out.raised # NoException
    THEN [pc |-> "error", name |-> name, payload |-> payload, exception |-> out.raised]
    ELSE [pc |-> "done", name |-> name, payload |-> payload, response |-> out.response]

AtRest == {"idle", "done", "error"}

\* the answers to the geocoding request of one resolution: when the resolver
\* sends none, nothing answers
GeocoderRepliesTo(location_name, api_key) ==
    IF geocode_location(location_name, api_key, [kind |-> "timeout"]).requests # <<>>
    THEN GeocoderReplies
    ELSE {[kind |-> "timeout"]}

\* the answers to the requests of the MapMyIndia client of plan_route
PlanReplies(e) ==
    IF MapMyIndia_is_configured(e)
    THEN RouteReplies(MAPMYINDIA) \X TokenReplies
    ELSE {<<[kind |-> "timeout"], [kind |-> "timeout"]>>}

\* suggest_text_route up to the end of its first await (line 525)
SuggestCall ==
    /\ handler.pc \in AtRest
    /\ mgr.pc = "idle"
    /\ served < MaxRequests
    /\ \E payload \in TextRouteRequests :
       \E reply \in GeocoderRepliesTo(payload.source, config.mapbox_api_key) :
          LET g == geocode_location(payload.source, config.mapbox_api_key, reply)
          IN  handler' = [pc |-> "geocode_destination", name |-> "suggest_text_route",
                          payload |-> payload, source_coords |-> g.result,
                          geocoder_requests |-> g.requests]
    /\ UNCHANGED <<bootVars, tasks, status, mmi_token, mgr, served>>

\* the second await (line 526) and the synchronous code up to the call of
\* router_manager.get_route (line 570)
GeocodeDestination ==
    /\ handler.pc = "geocode_destination"
    /\ \E reply \in GeocoderRepliesTo(handler.payload.destination,
                                       config.mapbox_api_key) :
          LET g == geocode_location(handler.payload.destination, config.mapbox_api_key,
                                    reply)
              local == suggest_estimate(handler.payload, handler.source_coords, g.result)
          IN  IF local.raised # NoException
              THEN /\ handler' = Finished(handler.name, handler.payload, local)
                   /\ served' = served + 1
                   /\ UNCHANGED mgr
              ELSE /\ handler' = [pc |-> "routing", name |-> handler.name,
                                  payload |-> handler.payload,
                                  source_coords |-> handler.source_coords,
                                  dest_coords |-> g.result,
                                  geocoder_requests |-> handler.geocoder_requests
                                                        \o g.requests,
                                  local |-> local]
                   /\ mgr' = EnterGetRoute(NoOverride, handler.payload.mode)
                   /\ UNCHANGED served
    /\ UNCHANGED <<bootVars, tasks, status, mmi_token>>

\* get_route returned or raised: lines 577-645
SuggestFinish ==
    /\ handler.pc = "routing"
    /\ mgr.pc \in {"returned", "raised"}
    /\ handler' = [pc |-> "done", name |-> handler.name, payload |-> handler.payload,
                   local |-> handler.local,
                   route_resp |-> mgr.result,
                   response |-> suggest_response(handler.local, handler.source_coords,
                                                 handler.dest_coords, mgr.result)]
    /\ mgr' = MgrIdle
    /\ served' = served + 1
    /\ UNCHANGED <<bootVars, tasks, status, mmi_token>>

\* POST /plan
PlanRouteCall ==
    /\ handler.pc \in AtRest
    /\ mgr.pc = "idle"
    /\ served < MaxRequests
    /\ \E payload \in RouteRequests, replies \in PlanReplies(env) :
          LET out == plan_route(payload, env, replies[1], mmi_token, replies[2])
          IN  /\ handler' = Finished("plan_route", payload, out)
              /\ mmi_token' = out.token
    /\ served' = served + 1
    /\ UNCHANGED <<bootVars, tasks, status, mgr>>

\* POST /plan/alternate
PlanAlternateCall ==
    /\ handler.pc \in AtRest
    /\ mgr.pc = "idle"
    /\ served < MaxRequests
    /\ \E payload \in AlternateRouteRequests, replies \in PlanReplies(env) :
          LET out == plan_alternate_route(payload, env, replies[1], mmi_token,
                                          replies[2])
          IN  /\ handler' = Finished("plan_alternate_route", payload, out)
              /\ mmi_token' = out.token
    /\ served' = served + 1
    /\ UNCHANGED <<bootVars, tasks, status, mgr>>

EnvWith(mapbox, google, preferred) ==
    [MAPBOX_API_KEY |-> mapbox, GOOGLE_MAPS_API_KEY |-> google,
     MAPMYINDIA_API_KEY |-> NoneS, MAPMYINDIA_CLIENT_ID |-> NoneS,
     MAPMYINDIA_CLIENT_SECRET |-> NoneS, OSRM_BASE_URL |-> NoneS,
     ROUTING_PROVIDER |-> preferred]

\* the environments of the handler runs: no credential at all, a Mapbox key
\* (which also configures the geocoder), Mapbox and Google keys with Google
\* preferred
HandlerEnvs ==
    {EnvWith(NoneS, NoneS, NoneS), EnvWith(K1, NoneS, NoneS),
     EnvWith(K1, K1, <<"G","o","o","g","l","e">>)}

InitHandlers == \E e \in HandlerEnvs : Booted(e)

NextHandlers ==
    \/ SuggestCall \/ GeocodeDestination \/ AttemptProvider \/ ProviderRaises
    \/ SuggestFinish \/ PlanRouteCall \/ PlanAlternateCall

SpecHandlers == InitHandlers /\ [][NextHandlers]_vars

-----------------------------------------------------------------------------
(* _geocode_location called on its own, over spellings of the gazetteer keys *)

Upper(s) == [i \in 1..Len(s) |-> IF s[i] \in DOMAIN LowerToUpper THEN LowerToUpper[s[i]] ELSE s[i]]

\* a gazetteer key in other letter case and with surrounding whitespace
Variations(key) ==
    {key, Upper(key), Title(key), <<" ">> \o key \o <<" ">>,
     <<"\t">> \o Upper(key) \o <<"\n">>, <<" ", " ">> \o Title(key)}

\* names with no exact match: fragments of keys, names containing a key,
\* nothing but whitespace, unknown places
OtherNames ==
    {<<>>, <<" ">>, <<"b","t","m">>, <<"R","o","a","d">>,
     <<"N","e","a","r"," ","H","e","b","b","a","l">>,
     <<"M","y","s","o","r","e">>, <<"h","a","m","p","i">>, <<"n","e","w"," ","d","e","l","h","i">>}

GeocodeNames ==
    UNION {Variations(LOCATION_DB[i][1]) : i \in 1..Len(LOCATION_DB)} \cup OtherNames

\* await _geocode_location(location_name)
GeocodeLocationCall ==
    /\ handler.pc \in AtRest
    /\ mgr.pc = "idle"
    /\ \E location_name \in GeocodeNames :
       \E reply \in GeocoderRepliesTo(location_name, config.mapbox_api_key) :
          LET g == geocode_location(location_name, config.mapbox_api_key, reply)
          IN  handler' = [pc |-> "done", name |-> "_geocode_location",
                          location_name |-> location_name, reply |-> reply,
                          result |-> g.result, requests |-> g.requests]
    /\ UNCHANGED <<bootVars, tasks, status, mmi_token, mgr, served>>

NextGeocode == GeocodeLocationCall

SpecGeocode == InitHandlers /\ [][NextGeocode]_vars

-----------------------------------------------------------------------------
(* Concurrent coroutines in MapMyIndiaClient.get_route on the one client     *)
(* object RouterManager holds; a step runs from one await to the next.       *)

\* get_route up to its first await: the route request on the API-key path,
\* the token request of _get_token on the OAuth path when no token is cached
MmiCall(t) ==
    /\ tasks[t].pc = "idle"
    /\ \E mode \in TravelMode :
          tasks' = [tasks EXCEPT ![t] =
             IF ~MapMyIndia_is_configured(env)
             THEN [pc |-> "done", mode |-> mode, requests |-> <<>>, result |-> NoneV]
             ELSE IF Bool(env["MAPMYINDIA_API_KEY"])
             THEN [pc |-> "awaiting_route", mode |-> mode,
                   requests |-> <<[base |-> MapMyIndiaBaseUrl, profile |-> "driving",
                                   credential |-> env["MAPMYINDIA_API_KEY"]]>>]
             ELSE IF Bool(mmi_token)
             THEN [pc |-> "done", mode |-> mode, requests |-> <<>>, token |-> mmi_token,
                   result |-> NoneV]
             ELSE [pc |-> "awaiting_token", mode |-> mode,
                   requests |-> <<[base |-> MapMyIndiaTokenUrl, profile |-> "token",
                                   credential |-> env["MAPMYINDIA_CLIENT_SECRET"]]>>]]
    /\ UNCHANGED <<bootVars, status, mmi_token, mgr, served, handler>>

\* the token endpoint answers: `self.token = data.get("access_token")` on a
\* 200, then get_route returns None whether or not a token came back
MmiTokenReply(t) ==
    /\ tasks[t].pc = "awaiting_token"
    /\ \E reply \in TokenReplies :
          LET granted == reply.kind = "http" /\ reply.status_code = 200 /\ reply.json_ok
              token == IF ~granted THEN NoneS
                       ELSE IF "access_token" \in DOMAIN reply.body
                       THEN <<reply.body["access_token"]>> ELSE NoneS
          IN  /\ mmi_token' = IF granted THEN token ELSE mmi_token
              /\ tasks' = [tasks EXCEPT ![t] =
                    [pc |-> "done", mode |-> tasks[t].mode,
                     requests |-> tasks[t].requests, token |-> token,
                     result |-> NoneV]]
    /\ UNCHANGED <<bootVars, status, mgr, served, handler>>

\* the routing service answers on the API-key path
MmiRouteReply(t) ==
    /\ tasks[t].pc = "awaiting_route"
    /\ \E reply \in RouteReplies(MAPMYINDIA) :
          tasks' = [tasks EXCEPT ![t] =
             [pc |-> "done", mode |-> tasks[t].mode, requests |-> tasks[t].requests,
              result |-> IF reply.kind = "http" /\ reply.status_code = 200 /\ reply.json_ok
                         THEN reply.body ELSE NoneV]]
    /\ UNCHANGED <<bootVars, status, mmi_token, mgr, served, handler>>

\* MapMyIndia configured by client id and secret only, and by an API key
MmiEnvs ==
    {[EnvWith(NoneS, NoneS, NoneS) EXCEPT !["MAPMYINDIA_CLIENT_ID"] = K1,
                                          !["MAPMYINDIA_CLIENT_SECRET"] = K2],
     [EnvWith(NoneS, NoneS, NoneS) EXCEPT !["MAPMYINDIA_API_KEY"] = K1]}

InitTasks == \E e \in MmiEnvs : Booted(e)

NextTasks == \E t \in 1..NumTasks : MmiCall(t) \/ MmiTokenReply(t) \/ MmiRouteReply(t)

SpecTasks == InitTasks /\ [][NextTasks]_vars

-----------------------------------------------------------------------------
(* The four clients of RouterManager.providers called one at a time, each  *)
(* call on its own: get_route of the client of any provider, configured or *)
(* not, with any travel mode and any answer of the remote services.        *)

ClientCall ==
    \E provider \in Providers, mode \in TravelMode :
       \E reply \in RouteReplies(provider), tokenReply \in TokenRepliesTo(provider) :
          LET out == client_get_route(provider, env, config, mode, reply,
                                      mmi_token, tokenReply)
          IN  /\ handler' = [pc |-> "done", name |-> "get_route", provider |-> provider,
                             mode |-> mode, result |-> out.result,
                             requests |-> out.requests, token_before |-> mmi_token]
              /\ mmi_token' = out.token
    /\ UNCHANGED <<bootVars, tasks, status, mgr, served>>

InitClients == \E e \in RouteEnvs : Booted(e)

NextClients == ClientCall

SpecClients == InitClients /\ [][NextClients]_vars

-----------------------------------------------------------------------------
(* Properties *)

\* the credential state of a provider, read off the environment
CredentialsPresent(e, p) ==
    CASE p = MAPBOX -> Bool(e["MAPBOX_API_KEY"])
      [] p = GOOGLE_MAPS -> Bool(e["GOOGLE_MAPS_API_KEY"])
      [] p = MAPMYINDIA ->
            Bool(e["MAPMYINDIA_API_KEY"])
            \/ (Bool(e["MAPMYINDIA_CLIENT_ID"]) /\ Bool(e["MAPMYINDIA_CLIENT_SECRET"]))
      [] OTHER -> FALSE

Usable(e, p) == p = OSRM \/ CredentialsPresent(e, p)

Occurrences(s, x) == Cardinality({i \in 1..Len(s) : s[i] = x})

\* position of a provider in the enumeration
EnumIndex(p) == CHOOSE i \in 1..Len(RoutingProvider) : RoutingProvider[i] = p

\* C1: for every credential combination and preferred-provider setting the
\* fallback chain holds OSRM exactly once, as its last element.
C1_OsrmOnceAndLast ==
    /\ Occurrences(fallback_chain, OSRM) = 1
    /\ fallback_chain[Len(fallback_chain)] = OSRM

\* C5: the configured preferred provider is the first element of the chain
\* iff it is usable, and an unusable preferred provider is not in the chain.
C5_PreferredFirstIffUsable ==
    LET p == config.preferred_provider
    IN  /\ Len(fallback_chain) >= 1
        /\ (fallback_chain[1] = p) <=> Usable(env, p)
        /\ ~Usable(env, p) => p \notin Range(fallback_chain)

C5_Witness ==
    /\ config.preferred_provider = GOOGLE_MAPS
    /\ ~Usable(env, GOOGLE_MAPS)
    /\ Usable(env, MAPBOX)
    /\ fallback_chain = <<MAPBOX, OSRM>>

\* C6: the chain has no duplicates, holds exactly the usable providers, and
\* the providers other than the preferred one are in enumeration order.
C6_ChainIsUsableSetInEnumOrder ==
    /\ \A p \in Providers : Occurrences(fallback_chain, p) <= 1
    /\ Range(fallback_chain) = {p \in Providers : Usable(env, p)}
    /\ \A i, j \in 1..Len(fallback_chain) :
          (/\ i < j
           /\ fallback_chain[i] # config.preferred_provider
           /\ fallback_chain[j] # config.preferred_provider)
          => EnumIndex(fallback_chain[i]) < EnumIndex(fallback_chain[j])

C6_Witness ==
    /\ config.preferred_provider = MAPMYINDIA
    /\ fallback_chain = <<MAPMYINDIA, MAPBOX, GOOGLE_MAPS, OSRM>>
    /\ ~Bool(env["MAPMYINDIA_API_KEY"])

\* the environments with the same credential presence pattern and the same
\* resolved preferred provider as e
SameValueClass(v) == IF Bool(v) THEN {K1, K2} ELSE {NoneS, <<>>}

SamePreferred(e) ==
    {r \in PreferredValues :
        ParsePreferred([e EXCEPT !["ROUTING_PROVIDER"] = r]) = ParsePreferred(e)}

SamePresence(e) ==
    [MAPBOX_API_KEY : SameValueClass(e["MAPBOX_API_KEY"]),
     GOOGLE_MAPS_API_KEY : SameValueClass(e["GOOGLE_MAPS_API_KEY"]),
     MAPMYINDIA_API_KEY : SameValueClass(e["MAPMYINDIA_API_KEY"]),
     MAPMYINDIA_CLIENT_ID : SameValueClass(e["MAPMYINDIA_CLIENT_ID"]),
     MAPMYINDIA_CLIENT_SECRET : SameValueClass(e["MAPMYINDIA_CLIENT_SECRET"]),
     OSRM_BASE_URL : OsrmUrlValues,
     ROUTING_PROVIDER : SamePreferred(e)]

IsProviderSeq(s) == Range(s) \subseteq Providers

\* C10: the status output is the same for any two configurations with the
\* same presence pattern and preferred provider, whatever the key strings,
\* and holds only provider names, booleans and the resolved chain.
C10_StatusIndependentOfSecrets ==
    status # NoneV =>
        /\ \A c2 \in {RoutingConfigInit(e2) : e2 \in SamePresence(env)} :
              get_provider_status(c2, RouterManagerInit(c2)) = status
        /\ DOMAIN status = {"configured_providers", "preferred_provider",
                            "fallback_chain", "provider_details"}
        /\ IsProviderSeq(status.configured_providers)
        /\ status.preferred_provider \in Providers
        /\ IsProviderSeq(status.fallback_chain)
        /\ DOMAIN status.provider_details = Providers
        /\ \A p \in Providers :
              status.provider_details[p] \in [configured : BOOLEAN, requires_key : BOOLEAN]

C10_Witness ==
    /\ status # NoneV
    /\ env["MAPBOX_API_KEY"] = K2
    /\ env["MAPMYINDIA_CLIENT_SECRET"] = K1
    /\ status.provider_details[MAPBOX].configured

\* a logged client call that handed back a route
Succeeded(entry) == ~entry.raised /\ Truthy(entry.result)

InCall == mgr.pc \in {"loop", "returned", "raised"}

\* C2: get_route invokes the providers strictly in order, each only after
\* every earlier one failed, returns the first success stamped with that
\* provider's identity and invokes nothing after it.
C2_FirstSuccessInOrderServes ==
    InCall =>
        LET log == mgr.log
            n == Len(log)
        IN  /\ n <= Len(mgr.order)
            /\ \A i \in 1..n : log[i].provider = mgr.order[i]
            /\ \A i \in 1..n : Succeeded(log[i]) => i = n /\ mgr.pc = "returned"
            /\ mgr.pc = "loop" => mgr.idx = n + 1
            /\ (mgr.pc = "returned" /\ n > 0 /\ Succeeded(log[n])) =>
                  /\ "_provider_used" \in DOMAIN mgr.result
                  /\ mgr.result["_provider_used"] = log[n].provider
                  /\ \A k \in DOMAIN log[n].result : mgr.result[k] = log[n].result[k]
            /\ (mgr.pc = "returned" /\ Truthy(mgr.result)) => n > 0 /\ Succeeded(log[n])

C2_Witness ==
    /\ mgr.pc = "returned"
    /\ Len(mgr.log) = 3
    /\ mgr.log[1].raised
    /\ mgr.log[2].result = NoneV /\ ~mgr.log[2].raised
    /\ Succeeded(mgr.log[3])
    /\ mgr.result["_provider_used"] = mgr.order[3]
    /\ Len(mgr.order) = 4

\* C3: if every provider of the effective order fails, get_route returns
\* None after attempting each of them, and it never raises.
C3_AllFailedReturnsNone ==
    InCall =>
        /\ mgr.pc # "raised"
        /\ mgr.pc = "loop" => mgr.idx <= Len(mgr.order)
        /\ (mgr.pc = "returned" /\ \A i \in 1..Len(mgr.log) : ~Succeeded(mgr.log[i])) =>
              /\ mgr.result = NoneV
              /\ [i \in 1..Len(mgr.log) |-> mgr.log[i].provider] = mgr.order

C3_Witness ==
    /\ mgr.pc = "returned"
    /\ mgr.result = NoneV
    /\ Len(mgr.log) = 4
    /\ mgr.log[2].raised
    /\ mgr.log[4].raised
    /\ ~mgr.log[1].raised

Without(chain, p) == LET keep(q) == q # p IN SelectSeq(chain, keep)

\* C4: with a usable override p the attempted order is p followed by the
\* precomputed chain without p; otherwise it is the precomputed chain; no
\* provider is attempted twice within one request.
C4_EffectiveOrder ==
    InCall =>
        /\ mgr.order =
              IF mgr.preferred # NoOverride /\ Usable(env, mgr.preferred)
              THEN <<mgr.preferred>> \o Without(fallback_chain, mgr.preferred)
              ELSE fallback_chain
        /\ \A p \in Providers :
              Cardinality({i \in 1..Len(mgr.log) : mgr.log[i].provider = p}) <= 1

C4_Witness ==
    /\ mgr.pc = "returned"
    /\ mgr.preferred = GOOGLE_MAPS
    /\ fallback_chain = <<MAPBOX, GOOGLE_MAPS, OSRM>>
    /\ mgr.order = <<GOOGLE_MAPS, MAPBOX, OSRM>>
    /\ Len(mgr.log) = 3

NormalizedKeys == {"geometry", "distance", "duration", "steps"}

\* C7: whichever provider succeeds, the value get_route returns has the
\* normalized shape: geometry, distance, duration and the concatenated steps
\* of the first route, plus the provider used.
C7_ReturnsNormalizedShape ==
    (mgr.pc = "returned" /\ Truthy(mgr.result)) =>
        /\ NormalizedKeys \subseteq DOMAIN mgr.result
        /\ "_provider_used" \in DOMAIN mgr.result

LatLon(point) == <<point.lat.num, point.lon.num>>
LonLat(point) == <<point.lon.num, point.lat.num>>

\* the value get_route handed to suggest_text_route carries a first route
RouteYielded(route_resp) ==
    Truthy(route_resp) /\ Get(route_resp, "routes", <<>>) # <<>>

\* the response is the local fallback: no geometry, the path source,
\* intermediate points, destination, and one step per point of that path
IsLocalFallback(h) ==
    LET r == h.response
        via == h.local.intermediate_points
        n == Len(via)
    IN  /\ r.geometry = ""
        /\ r.detailed_geometry =
              <<LatLon(r.start_point)>> \o [i \in 1..n |-> LatLon(via[i])]
              \o <<LatLon(r.end_point)>>
        /\ Len(r.steps) = n + 2
        /\ r.steps[1].maneuver.location = LonLat(r.start_point)
        /\ \A i \in 1..n : r.steps[i + 1].maneuver.location = LonLat(via[i])
        /\ r.steps[n + 2].maneuver.location = LonLat(r.end_point)

\* C8: every suggest_text_route request ends in a successful response,
\* whatever the geocoder and the providers answer; when no provider yields a
\* route the response is the local fallback (empty geometry, path of source,
\* intermediate points and destination, start + intermediate + arrival steps).
C8_SuggestAlwaysSucceeds ==
    (handler.pc \in {"done", "error"} /\ handler.name = "suggest_text_route") =>
        /\ handler.pc = "done"
        /\ ~RouteYielded(handler.route_resp) => IsLocalFallback(handler)

\* C9: every plan_route request ends in a RouteResponse, the haversine_stub
\* estimate (haversine distance, distance / speed) when the MapMyIndia client
\* yields no usable route; every plan_alternate_route request ends in a
\* response too.
C9_PlanAlwaysResponds ==
    (handler.pc \in {"done", "error"}
     /\ handler.name \in {"plan_route", "plan_alternate_route"}) =>
        /\ handler.pc = "done"
        /\ (handler.name = "plan_route" /\ ~MapMyIndia_is_configured(env)) =>
              LET r == handler.response
                  d == haversine_distance_m(handler.payload.origin.lat,
                                            handler.payload.origin.lon,
                                            handler.payload.destination.lat,
                                            handler.payload.destination.lon)
              IN  /\ r.debug.implementation = "haversine_stub"
                  /\ r.summary.distance_meters = d
                  /\ r.summary.duration_seconds =
                        RoundDiv(d * 10, estimate_speed_mps(handler.payload.mode))

IsPrefix(p, s) == Len(p) <= Len(s) /\ SubSeq(s, 1, Len(p)) = p

\* the OSRM client is the only one that sends no credential
IsOsrmRequest(r) == r.credential = NoneS

\* C11: every request the OSRM client issues through RouterManager goes to
\* the base URL configured by OSRM_BASE_URL; the default public server is
\* used only when no override is set.
C11_OsrmRequestsUseConfiguredUrl ==
    mgr.pc # "idle" =>
        \A i \in DOMAIN mgr.requests :
            IsOsrmRequest(mgr.requests[i]) =>
                /\ IsPrefix(config.osrm_base_url, mgr.requests[i].base)
                /\ IsPrefix(DefaultOsrmUrl, mgr.requests[i].base)
                      => env["OSRM_BASE_URL"] = NoneS

SameLetter(c, d) ==
    \/ c = d
    \/ c \in DOMAIN UpperToLower /\ UpperToLower[c] = d
    \/ d \in DOMAIN UpperToLower /\ UpperToLower[d] = c

EqIgnoreCase(a, b) ==
    Len(a) = Len(b) /\ \A i \in 1..Len(a) : SameLetter(a[i], b[i])

\* the provider a ROUTING_PROVIDER value names, if any
NamedProviders(v) ==
    {p \in Providers : v # NoneS /\ EqIgnoreCase(v, ProviderValue[p])}

\* C12: ROUTING_PROVIDER is matched case-insensitively against mapbox,
\* google, mapmyindia, osrm: a value in the set selects that provider, any
\* other value or an unset variable leaves OSRM preferred.
C12_PreferredValidated ==
    LET named == NamedProviders(env["ROUTING_PROVIDER"])
    IN  /\ config.preferred_provider \in Providers
        /\ \A p \in named : config.preferred_provider = p
        /\ named = {} => config.preferred_provider = OSRM

C12_Witness ==
    /\ env["ROUTING_PROVIDER"] = <<"G","o","o","g","l","e">>
    /\ config.preferred_provider = GOOGLE_MAPS
    /\ status # NoneV

EventWords == ProtestWords \cup ClosureWords \cup CongestionWords

\* the straight-line distance of the two resolved places of a suggest request
BaseDistance(h) ==
    haversine_distance_m(h.source_coords.lat.num, h.source_coords.lon.num,
                         h.dest_coords.lat.num, h.dest_coords.lon.num)

\* C13: the local estimate of suggest_text_route is the base distance times a
\* factor: one of the factors above 1.0 for a recognized event category,
\* exactly 1.05 for a non-empty event of no recognized category, exactly 1.0
\* for no event; plan_alternate_route's factor follows the same table.
C13_EventMultiplier ==
    /\ (handler.pc = "routing" /\ handler.name = "suggest_text_route") =>
          LET base == BaseDistance(handler)
              event == handler.payload.event
              d == handler.local.distance_m
          IN  /\ event = <<>> => d = base
              /\ (event # <<>> /\ AnyIn(EventWords, Strip(Lower(event)))) =>
                    d \in {MulDiv(base, 12, 10), MulDiv(base, 13, 10),
                           MulDiv(base, 23, 20)}
              /\ (event # <<>> /\ ~AnyIn(EventWords, Strip(Lower(event)))) =>
                    d = MulDiv(base, 21, 20)
    /\ \A r \in AlternateRouteRequests :
          LET factor == event_type_factor(r.event_type)
          IN  /\ factor[1] > factor[2]
              /\ ~AnyIn(EventWords, Strip(Lower(r.event_type))) => factor = <<21, 20>>

\* the response the same request without its event gets when the geocoder
\* and the providers answer as they did for the finished request h
NoEventResponse(h) ==
    suggest_response(suggest_estimate([h.payload EXCEPT !.event = <<>>],
                                      h.response.start_point, h.response.end_point),
                     h.response.start_point, h.response.end_point, h.route_resp)

BtmToMgRoad(payload) ==
    /\ payload.source = <<"B","T","M"," ","L","a","y","o","u","t">>
    /\ payload.destination = <<"M","G"," ","R","o","a","d">>

\* C14: from BTM Layout to MG Road, whatever the providers answer, a request
\* whose event contains "rally" returns waypoints that include Dairy Circle
\* and a distance_meters strictly greater than the no-event request's.
C14_RallyDetourIsLonger ==
    (/\ handler.pc = "done"
     /\ handler.name = "suggest_text_route"
     /\ BtmToMgRoad(handler.payload)
     /\ Contains(<<"r","a","l","l","y">>, Lower(handler.payload.event))) =>
        /\ \E i \in DOMAIN handler.response.waypoints :
              handler.response.waypoints[i] = <<"D","a","i","r","y"," ","C","i","r","c","l","e">>
        /\ handler.response.distance_meters > NoEventResponse(handler).distance_meters

\* C15: BTM Layout to MG Road by car with no event, whatever the providers
\* answer: waypoints BTM Layout, Richmond Road, MG Road, a reason mentioning
\* Richmond Circle, the haversine distance of (12.9166, 77.6101) and
\* (12.9716, 77.5946), and that distance divided by the car speed as duration.
C15_BtmToMgRoadScenario ==
    (/\ handler.pc = "done"
     /\ handler.name = "suggest_text_route"
     /\ BtmToMgRoad(handler.payload)
     /\ handler.payload.mode = "car"
     /\ handler.payload.event = <<>>) =>
        LET r == handler.response
            d == haversine_distance_m(129166, 776101, 129716, 775946)
        IN  /\ r.waypoints = << <<"B","T","M"," ","L","a","y","o","u","t">>,
                                <<"R","i","c","h","m","o","n","d"," ","R","o","a","d">>,
                                <<"M","G"," ","R","o","a","d">> >>
            /\ Contains(<<"R","i","c","h","m","o","n","d"," ","C","i","r","c","l","e">>,
                        r.reason)
            /\ r.distance_meters = d
            /\ r.duration_seconds = RoundDiv(d * 10, 1390)

Resolved == handler.pc = "done" /\ handler.name = "_geocode_location"

\* the gazetteer entries whose key the name spells, ignoring letter case and
\* surrounding whitespace
Spelled(location_name) ==
    {i \in 1..Len(LOCATION_DB) : EqIgnoreCase(Strip(location_name), LOCATION_DB[i][1])}

\* C16: a gazetteer key in any letter case and with any surrounding
\* whitespace resolves to that key's stored lat, lon and display name, and
\* the remote geocoder is not called.
C16_GazetteerExactMatch ==
    Resolved =>
        \A i \in Spelled(handler.location_name) :
            /\ handler.result = LOCATION_DB[i][2]
            /\ handler.requests = <<>>

C16_Witness ==
    /\ Resolved
    /\ handler.location_name = <<"\t","M","G"," ","R","O","A","D","\n">>
    /\ handler.result = Place(129716, 775946, <<"M","G"," ","R","o","a","d">>)
    /\ Bool(config.mapbox_api_key)

\* the remote tier gave no place: the call raised (timeout, connection), the
\* status was not 200, the body did not parse, or it held no feature with
\* two coordinates
RemoteGaveNothing(reply) ==
    \/ reply.kind # "http"
    \/ reply.status_code # 200
    \/ ~reply.json_ok
    \/ Get(reply.body, "features", <<>>) = <<>>
    \/ Len(reply.body.features[1].geometry.coordinates) < 2

\* C17: a name with no exact and no substring match resolves to the fixed
\* default (12.9716, 77.5946) with the title-cased input as display name
\* whenever remote geocoding is disabled, gives no result or raises; the
\* resolver itself never raises.
C17_UnknownNameFallsBackToDefault ==
    (/\ handler.pc \in {"done", "error"}
     /\ handler.name = "_geocode_location"
     /\ Spelled(handler.location_name) = {}
     /\ PartialMatches(Strip(Lower(handler.location_name))) = {}
     /\ (~Bool(config.mapbox_api_key) \/ RemoteGaveNothing(handler.reply))) =>
        /\ handler.pc = "done"
        /\ handler.result = Place(129716, 775946, Title(handler.location_name))

C17_Witness ==
    /\ Resolved
    /\ handler.location_name = <<"n","e","w"," ","d","e","l","h","i">>
    /\ Bool(config.mapbox_api_key)
    /\ handler.reply = [kind |-> "timeout"]
    /\ handler.requests # <<>>
    /\ handler.result = Place(129716, 775946, <<"N","e","w"," ","D","e","l","h","i">>)

\* Coordinate: lat in [-90, 90], lon in [-180, 180], in 1/10000 degree
InRange(point) ==
    /\ -900000 <= point.lat.num /\ point.lat.num <= 900000
    /\ -1800000 <= point.lon.num /\ point.lon.num <= 1800000

\* C18: the coordinates suggest_text_route passes to RouterManager.get_route,
\* and so to the provider clients, satisfy lat in [-90, 90] and lon in
\* [-180, 180], also when the remote geocoder produced them.
C18_RoutedCoordinatesInRange ==
    (handler.pc = "routing" /\ mgr.pc \in {"loop", "returned"}) =>
        /\ InRange(handler.source_coords)
        /\ InRange(handler.dest_coords)

\* a response body that carries at least one route
CarriesRoute(body) == Get(body, "routes", <<>>) # <<>>

\* C19: a client's get_route returns None whenever the remote response
\* carries no route, a 200 with a missing or empty routes list included, so
\* that get_route never returns a route-less value as a success.
C19_RouteLessResponseIsFailure ==
    mgr.pc # "idle" =>
        /\ \A i \in DOMAIN mgr.log :
              (~mgr.log[i].raised /\ mgr.log[i].result # NoneV) =>
                  CarriesRoute(mgr.log[i].result)
        /\ (mgr.pc = "returned" /\ mgr.result # NoneV) => CarriesRoute(mgr.result)

OAuthOnly ==
    /\ ~Bool(env["MAPMYINDIA_API_KEY"])
    /\ Bool(env["MAPMYINDIA_CLIENT_ID"]) /\ Bool(env["MAPMYINDIA_CLIENT_SECRET"])

TokenFetchesInFlight == {t \in 1..NumTasks : tasks[t].pc = "awaiting_token"}

\* C20: with client id and secret only, concurrent get_route calls refresh
\* the token cache safely: never more than one token request is in flight,
\* and a cached token is never replaced by a fetch that completes later.
C20_TokenRefreshIsSafe ==
    /\ [](OAuthOnly => Cardinality(TokenFetchesInFlight) <= 1)
    /\ [][(OAuthOnly /\ Bool(mmi_token)) => mmi_token' = mmi_token]_vars

TokenGranted(reply) ==
    reply.kind = "http" /\ reply.status_code = 200 /\ reply.json_ok
    /\ "access_token" \in DOMAIN reply.body

\* C21: on a client with client id and secret only, once a token is cached
\* every _get_token returns it without a request to the token endpoint; with
\* an empty cache a failed fetch (non-200 status or exception) returns None,
\* leaves the cache empty and has contacted the endpoint, as the next call
\* will again.
C21_TokenCachedUntilProcessEnds ==
    OAuthOnly =>
        \A reply \in TokenReplies :
            LET out == MapMyIndiaClient_get_token(env, mmi_token, reply)
            IN  /\ Bool(mmi_token) =>
                      /\ out.result = mmi_token
                      /\ out.token = mmi_token
                      /\ out.requests = <<>>
                /\ (~Bool(mmi_token) /\ ~TokenGranted(reply)) =>
                      /\ out.result = NoneS
                      /\ out.token = mmi_token
                      /\ Len(out.requests) = 1
                      /\ out.requests[1].base = MapMyIndiaTokenUrl
                /\ (~Bool(mmi_token) /\ TokenGranted(reply)) =>
                      /\ Bool(out.token)
                      /\ out.result = out.token

\* a second get_route call found the token of the first one in the cache
C21_Witness ==
    /\ OAuthOnly
    /\ served = 1
    /\ mmi_token = <<"tokA">>
    /\ mgr.pc = "returned"
    /\ \E i \in DOMAIN mgr.log : mgr.log[i].provider = MAPMYINDIA /\ ~mgr.log[i].raised
    /\ \A i \in DOMAIN mgr.requests : mgr.requests[i].base # MapMyIndiaTokenUrl

IsMmiRouteRequest(request) == request.base = MapMyIndiaBaseUrl

\* C22: with client id and secret only, a get_route call that was granted a
\* token sends a routing request carrying that token and, when the routing
\* service answers with a route, returns it; so it has not returned None
\* without ever asking the routing service.
C22_OAuthRouteIsServed ==
    \A t \in 1..NumTasks :
        (OAuthOnly /\ tasks[t].pc = "done" /\ Bool(tasks[t].token)) =>
            \E i \in DOMAIN tasks[t].requests :
                /\ IsMmiRouteRequest(tasks[t].requests[i])
                /\ tasks[t].requests[i].credential = tasks[t].token

\* timeout, connection error, authentication rejected, rate limited, other
\* non-200 status, unparsable body
FailureReplies == TransportFailures \cup ErrorStatuses \cup {HttpUnparsable}

LoggedNone(p) ==
    \E i \in DOMAIN mgr.log :
        mgr.log[i].provider = p /\ ~mgr.log[i].raised /\ mgr.log[i].result = NoneV

\* C23: whichever client the manager is about to call, with whatever
\* credentials, travel mode and cached token, its get_route answers every
\* failure (timeout, connection error, 401, 429, other non-200, unparsable
\* body) by returning None, and no answer at all makes it raise.
C23_ClientsNeverRaise ==
    mgr.pc = "loop" =>
        LET p == mgr.order[mgr.idx]
            get_route(reply, tokenReply) ==
                client_get_route(p, env, config, mgr.mode, reply, mmi_token, tokenReply)
        IN  \A tokenReply \in TokenRepliesTo(p) :
                /\ \A reply \in FailureReplies :
                      get_route(reply, tokenReply).result = NoneV
                /\ \A reply \in RouteReplies(p) :
                      "raised" \notin DOMAIN get_route(reply, tokenReply).result

\* Mapbox, Google and MapMyIndia were each asked and each returned None
C23_Witness ==
    /\ mgr.pc \in {"loop", "returned"}
    /\ LoggedNone(MAPBOX) /\ LoggedNone(GOOGLE_MAPS) /\ LoggedNone(MAPMYINDIA)
    /\ \E i \in DOMAIN mgr.requests : mgr.requests[i].base = MapboxBaseUrl
    /\ \E i \in DOMAIN mgr.requests : mgr.requests[i].base = GoogleBaseUrl
    /\ \E i \in DOMAIN mgr.requests : mgr.requests[i].base = MapMyIndiaBaseUrl

ClientCalled == handler.pc = "done" /\ handler.name = "get_route"

\* C24: get_route of the Mapbox, Google or MapMyIndia client, called while
\* that provider's credentials are absent, returns None and has sent no
\* request, neither to the routing service nor to the token endpoint, and has
\* left the token cache alone.
C24_UnconfiguredClientStaysLocal ==
    (/\ ClientCalled
     /\ handler.provider # OSRM
     /\ ~CredentialsPresent(env, handler.provider)) =>
        /\ handler.result = NoneV
        /\ handler.requests = <<>>
        /\ mmi_token = handler.token_before

\* the MapMyIndia client was called with a client id but no secret and no key
C24_Witness ==
    /\ ClientCalled
    /\ handler.provider = MAPMYINDIA
    /\ Bool(env["MAPMYINDIA_CLIENT_ID"])
    /\ ~Bool(env["MAPMYINDIA_CLIENT_SECRET"])
    /\ ~Bool(env["MAPMYINDIA_API_KEY"])
    /\ handler.result = NoneV
    /\ handler.requests = <<>>

\* the keywords the three categories are described by
ClosureKeywords == ClosureWords
ProtestKeywords == {<<"r","a","l","l","y">>, <<"p","r","o","t","e","s","t">>, <<"p","a","r","a","d","e">>}
CongestionKeywords == CongestionWords

\* C25: the distance suggest_text_route estimates is at least the base
\* distance times the threshold of every category a keyword of which the
\* event contains: 1.3 for closure, accident, construction; 1.2 for rally,
\* protest, parade; 1.15 for concert, sports, event; and plan_alternate_route's
\* factor is at least the threshold of the category of its event type.
C25_MultiplierCoversEveryCategory ==
    /\ (handler.pc = "routing" /\ handler.name = "suggest_text_route") =>
          LET base == BaseDistance(handler)
              text == Strip(Lower(handler.payload.event))
              d == handler.local.distance_m
          IN  /\ AnyIn(ClosureKeywords, text) => d >= MulDiv(base, 13, 10)
              /\ AnyIn(ProtestKeywords, text) => d >= MulDiv(base, 12, 10)
              /\ AnyIn(CongestionKeywords, text) => d >= MulDiv(base, 23, 20)
    /\ \A r \in AlternateRouteRequests :
          LET factor == event_type_factor(r.event_type)
              text == Strip(Lower(r.event_type))
          IN  /\ AnyIn(ClosureKeywords, text) => factor[1] * 10 >= 13 * factor[2]
              /\ AnyIn(ProtestKeywords, text) => factor[1] * 10 >= 12 * factor[2]
              /\ AnyIn(CongestionKeywords, text) => factor[1] * 20 >= 23 * factor[2]

\* the gazetteer entries the normalized name equals, contains or is part of
GazetteerHits(location_name) ==
    LET normalized == Strip(Lower(location_name))
    IN  {i \in 1..Len(LOCATION_DB) :
            \/ LOCATION_DB[i][1] = normalized
            \/ Contains(normalized, LOCATION_DB[i][1])
            \/ Contains(LOCATION_DB[i][1], normalized)}

\* C26: a resolution sends at most one geocoding request, and only for a name
\* with no exact and no substring match in the gazetteer; a name with a match
\* gets one of the matching entries; a name without one gets the fixed
\* default only if the geocoder is not configured or gave no result.
C26_TiersInOrder ==
    Resolved =>
        LET hits == GazetteerHits(handler.location_name)
        IN  /\ Len(handler.requests) <= 1
            /\ handler.requests # <<>> => hits = {}
            /\ hits # {} => \E i \in hits : handler.result = LOCATION_DB[i][2]
            /\ (hits = {} /\ Bool(config.mapbox_api_key)) => Len(handler.requests) = 1
            /\ (/\ hits = {}
                /\ handler.result =
                      Place(DefaultLat, DefaultLon, Title(handler.location_name))) =>
                  (~Bool(config.mapbox_api_key) \/ RemoteGaveNothing(handler.reply))

\* an unknown name was resolved by the one request sent to the geocoder
C26_Witness ==
    /\ Resolved
    /\ handler.location_name = <<"M","y","s","o","r","e">>
    /\ GazetteerHits(handler.location_name) = {}
    /\ Len(handler.requests) = 1
    /\ handler.reply = Http(200, GeoOk)
    /\ handler.result # Place(DefaultLat, DefaultLon, Title(handler.location_name))

SuggestDone == handler.pc = "done" /\ handler.name = "suggest_text_route"

\* source_coords.get("display", payload.source)
ResolvedName(coords, given) ==
    IF "display" \in DOMAIN coords THEN coords.display.str ELSE given

\* the response to the same request, resolved to the same places, when every
\* provider failed
AllFailedResponse(h) ==
    suggest_response(suggest_estimate(h.payload, h.response.start_point,
                                      h.response.end_point),
                     h.response.start_point, h.response.end_point, NoneV)

\* C27: the waypoints, recommended_route and reason of a suggest_text_route
\* response are those of the response the same request gets when every
\* provider fails, whatever get_route returned; the waypoints are those of
\* _generate_waypoints, they start with the resolved source name and end with
\* the resolved destination name, and recommended_route joins them.
C27_NarrativeIgnoresProviders ==
    SuggestDone =>
        LET r == handler.response
            source == ResolvedName(r.start_point, handler.payload.source)
            destination == ResolvedName(r.end_point, handler.payload.destination)
            twin == AllFailedResponse(handler)
        IN  /\ r.waypoints = twin.waypoints
            /\ r.recommended_route = twin.recommended_route
            /\ r.reason = twin.reason
            /\ r.waypoints =
                  generate_waypoints(source, destination, handler.payload.event).waypoints
            /\ Head(r.waypoints) = source
            /\ r.waypoints[Len(r.waypoints)] = destination
            /\ r.recommended_route = Join(ArrowSeparator, r.waypoints)

\* a provider served the route of a request with an event and a detour
C27_Witness ==
    /\ SuggestDone
    /\ RouteYielded(handler.route_resp)
    /\ handler.payload.event # <<>>
    /\ Len(handler.response.waypoints) = 4
    /\ Head(handler.response.waypoints) = <<"B","T","M"," ","L","a","y","o","u","t">>

\* C28: in every suggest_text_route response estimated_co2_kg is the mode's
\* factor per kilometre (0 for walk and bike, 0.08 for transit, 0.18 for car)
\* applied to the distance returned as distance_meters.
C28_EmissionsMatchDistance ==
    SuggestDone =>
        handler.response.estimated_co2_kg =
            estimate_co2_kg(handler.response.distance_meters, handler.payload.mode)

\* the steps the serving provider's route carries, leg after leg
ProviderSteps(route_resp) ==
    IF RouteYielded(route_resp)
    THEN leg_steps(Get(route_resp.routes[1], "legs", <<>>))
    ELSE <<>>

\* C29: the steps of a suggest_text_route response are either exactly the
\* steps of the serving provider's route, leg after leg, or exactly the
\* synthesized start, intermediate and arrival steps, never the second
\* appended to the first.
C29_StepsOfOneOrigin ==
    SuggestDone =>
        LET r == handler.response
            synthesized == fallback_steps(r.waypoints, r.start_point,
                                          handler.local.intermediate_points, r.end_point)
        IN  \/ (RouteYielded(handler.route_resp)
                /\ r.steps = ProviderSteps(handler.route_resp))
            \/ r.steps = synthesized

ExactKeys(location_name) ==
    {i \in 1..Len(LOCATION_DB) : LOCATION_DB[i][1] = Strip(Lower(location_name))}

\* C30: a name with no exact match but with a key that contains the
\* normalized name or is contained in it resolves, without a geocoding
\* request, to the first such entry in table order; an empty or
\* whitespace-only name resolves to the first entry, BTM Layout.
C30_FirstSubstringMatchWins ==
    (Resolved /\ ExactKeys(handler.location_name) = {}) =>
        LET hits == GazetteerHits(handler.location_name)
        IN  /\ hits # {} =>
                  /\ \E i \in hits : /\ \A j \in hits : i <= j
                                    /\ handler.result = LOCATION_DB[i][2]
                  /\ handler.requests = <<>>
            /\ Strip(handler.location_name) = <<>> =>
                  /\ handler.result =
                        Place(129166, 776101, <<"B","T","M"," ","L","a","y","o","u","t">>)
                  /\ handler.requests = <<>>

\* a blank name was resolved while the remote geocoder was configured
C30_Witness ==
    /\ Resolved
    /\ handler.location_name = <<" ">>
    /\ Bool(config.mapbox_api_key)
    /\ handler.result = LOCATION_DB[1][2]
    /\ handler.requests = <<>>

====
